---- MODULE Spec2Model ----
(***************************************************************************)
(* A model of celengine's Observer (src/src/celengine/observer.cpp,        *)
(* observer.h): the observer's frame-local and universal position and      *)
(* orientation, its ObserverFrame, its journey and the per-tick update.    *)
(*                                                                         *)
(* Geometry is carried on a lattice: a position is a pair of integers      *)
(* (kilometres), an orientation is a rotation by a whole number of quarter *)
(* turns (0..3), so that every frame conversion is a real rotation plus a  *)
(* real translation that depends on the time, and is exact.  Times are     *)
(* counted in ticks of 1/8 s: realTime in ticks, simTime in ticks of       *)
(* simulated time (one Julian day is 86400 * 8 of them), so that           *)
(* (dt / 86400) * timeScale days is dt * timeScale ticks.                  *)
(***************************************************************************)
EXTENDS Integers, Sequences, FiniteSets, TLC

(***************************************************************************)
(* Bounds of the model.                                                    *)
(***************************************************************************)
\* The number of calls made on the observer in one behaviour.
MaxSteps == 3

\* The longest journey, in ticks.
MaxDuration == 2

\* The longest tick of update.
MaxDt == 2
MaxDistance == 2001

(***************************************************************************)
(* Eigen::Vector3d on the lattice.                                         *)
(***************************************************************************)
Zero == <<0, 0>>

Abs(n) == IF n < 0 THEN -n ELSE n

VAdd(a, b) == <<a[1] + b[1], a[2] + b[2]>>

VSub(a, b) == <<a[1] - b[1], a[2] - b[2]>>

VScale(a, k) == <<a[1] * k, a[2] * k>>

VNeg(a) == <<-a[1], -a[2]>>

\* n / d rounded towards zero (d > 0): the lattice value of a real quotient.
TDiv(n, d) == IF n >= 0 THEN n \div d ELSE -((-n) \div d)

VDiv(a, d) == <<TDiv(a[1], d), TDiv(a[2], d)>>

\* Vector3d::norm(), exact for the axis-parallel vectors the model's objects
\* lie on; zero exactly for the zero vector.
Norm(a) == Abs(a[1]) + Abs(a[2])

(***************************************************************************)
(* Eigen::Quaterniond restricted to quarter turns about the axis normal to *)
(* the lattice: q is the number of quarter turns.                          *)
(***************************************************************************)
Quat == 0..3

Identity == 0

QMul(a, b) == (a + b) % 4

QConj(a) == (4 - a) % 4

\* q * v: the vector v rotated by q.
QRot(q, v) ==
    CASE q % 4 = 0 -> v
      [] q % 4 = 1 -> <<-v[2], v[1]>>
      [] q % 4 = 2 -> <<-v[1], -v[2]>>
      [] q % 4 = 3 -> <<v[2], -v[1]>>

\* The quarter turn whose image of the x axis is nearest to the direction of v
\* (0 for the zero vector, whose direction is undefined).
Quadrant(v) ==
    IF Abs(v[1]) >= Abs(v[2])
    THEN (IF v[1] >= 0 THEN 0 ELSE 2)
    ELSE (IF v[2] > 0 THEN 1 ELSE 3)

\* The observer looks along its local -Z axis; on the lattice that axis is
\* the local x axis.
ViewAxis == <<1, 0>>

\* celmath LookAt(from, to, up): the orientation q whose view direction
\* q.conjugate() * ViewAxis points along `dir`.
LookAt(dir) == QConj(Quadrant(dir))

\* Quaterniond::setFromTwoVectors(v, w): the rotation that takes v to w.
FromTwoVectors(v, w) == (Quadrant(w) - Quadrant(v)) % 4

\* Quaterniond::slerp(v, q1) at v = n / d in [0, 1]: the lattice holds only
\* the end points, so the interpolated rotation is the nearer of the two.
QSlerp(n, d, q0, q1) == IF 2 * n < d THEN q0 ELSE q1

(***************************************************************************)
(* UniversalCoord.                                                         *)
(***************************************************************************)
\* The largest coordinate inside the simulation's bounds.
MaxCoord == 6

isOutOfBounds(p) == Abs(p[1]) > MaxCoord \/ Abs(p[2]) > MaxCoord

\* a.offsetKm(v)
offsetKm(a, v) == VAdd(a, v)

\* a.offsetFromKm(b)
offsetFromKm(a, b) == VSub(a, b)

(***************************************************************************)
(* Selection: nothing, a star, a body orbiting it, a location on the body. *)
(***************************************************************************)
Nil == "Nil"

Sol == "Sol"

Earth == "Earth"

Site == "Site"

Selections == {Nil, Sol, Earth, Site}

empty(sel) == sel = Nil

isBody(sel) == sel = Earth

isStar(sel) == sel = Sol

isLocation(sel) == sel = Site

\* Selection::parent()
parent(sel) ==
    CASE sel = Site -> Earth
      [] sel = Earth -> Sol
      [] OTHER -> Nil

\* body->getSystem()->getStar() of a body
starOf(sel) == Sol

\* Selection::radius()
radius(sel) ==
    CASE sel = Sol -> 2
      [] sel = Earth -> 1
      [] OTHER -> 0

\* The body's rotation at time t (quarter turns).
spin(sel, t) ==
    CASE sel = Earth -> (2 * t) % 4
      [] sel = Site -> (2 * t) % 4
      [] sel = Sol -> t % 4
      [] OTHER -> 0

\* Selection::getPosition(t): the star is fixed off the barycenter, the body
\* goes round it once in four ticks, the location turns with the body.
getPosition(sel, t) ==
    CASE sel = Sol -> <<1, 0>>
      [] sel = Earth -> VAdd(<<1, 0>>, QRot(t % 4, <<2, 0>>))
      [] sel = Site -> VAdd(VAdd(<<1, 0>>, QRot(t % 4, <<2, 0>>)),
                            QRot((2 * t) % 4, <<1, 0>>))
      [] OTHER -> Zero

(***************************************************************************)
(* ReferenceFrame: a center and an orientation that depends on the time.   *)
(***************************************************************************)
J2000EclipticFrame(center) ==
    [kind |-> "J2000Ecliptic", center |-> center, a |-> Nil, b |-> Nil]

BodyMeanEquatorFrame(center, obj) ==
    [kind |-> "BodyMeanEquator", center |-> center, a |-> obj, b |-> Nil]

BodyFixedFrame(center, obj) ==
    [kind |-> "BodyFixed", center |-> center, a |-> obj, b |-> Nil]

\* A TwoVectorFrame whose primary axis is a relative position (kind
\* "RelPos") or a relative velocity ("RelVel") of `a` seen from `b`.
TwoVectorFrame(center, kind, a, b) ==
    [kind |-> kind, center |-> center, a |-> a, b |-> b]

\* The position of a relative to b, and its change over one tick.
relPos(a, b, t) == VSub(getPosition(b, t), getPosition(a, t))

relVel(a, b, t) == VSub(relPos(a, b, t + 1), relPos(a, b, t))

\* ReferenceFrame::getOrientation(t)
frameOrientation(f, t) ==
    CASE f.kind = "J2000Ecliptic" -> Identity
      [] f.kind = "BodyMeanEquator" -> (IF f.a = Earth \/ f.a = Site THEN 1 ELSE Identity)
      [] f.kind = "BodyFixed" -> spin(f.a, t)
      [] f.kind = "RelPos" -> Quadrant(relPos(f.a, f.b, t))
      [] f.kind = "RelVel" -> Quadrant(relVel(f.a, f.b, t))
      [] OTHER -> Identity

\* ReferenceFrame::convertFromUniversal(uc, t)
refFromUniversalP(f, uc, t) ==
    QRot(frameOrientation(f, t), offsetFromKm(uc, getPosition(f.center, t)))

\* ReferenceFrame::convertToUniversal(uc, t)
refToUniversalP(f, uc, t) ==
    offsetKm(getPosition(f.center, t), QRot(QConj(frameOrientation(f, t)), uc))

\* ReferenceFrame::convertFromUniversal(q, t)
refFromUniversalQ(f, q, t) == QMul(q, QConj(frameOrientation(f, t)))

\* ReferenceFrame::convertToUniversal(q, t)
refToUniversalQ(f, q, t) == QMul(q, frameOrientation(f, t))

(***************************************************************************)
(* ObserverFrame.                                                          *)
(***************************************************************************)
Universal == "Universal"

Ecliptical == "Ecliptical"

Equatorial == "Equatorial"

BodyFixed == "BodyFixed"

PhaseLock == "PhaseLock"

Chase == "Chase"

PhaseLock_Old == "PhaseLock_Old"

Chase_Old == "Chase_Old"

ObserverLocal == "ObserverLocal"

Unknown == "Unknown"

\* ObserverFrame::createFrame
\* A mutant of createFrame: the Ecliptical frame is placed at the barycenter
\* like the Universal one.
createFrame_barycentric(coordSys, refObject, targetObject) ==
    CASE coordSys = Equatorial -> BodyMeanEquatorFrame(refObject, refObject)
      [] coordSys = BodyFixed -> BodyFixedFrame(refObject, refObject)
      [] coordSys = PhaseLock ->
            TwoVectorFrame(refObject, "RelPos", refObject, targetObject)
      [] coordSys = Chase ->
            TwoVectorFrame(refObject, "RelVel", refObject, parent(refObject))
      [] OTHER -> J2000EclipticFrame(Nil)

createFrame(coordSys, refObject, targetObject) ==
    CASE coordSys = Universal -> J2000EclipticFrame(Nil)
      [] coordSys = Ecliptical -> J2000EclipticFrame(refObject)
      [] coordSys = Equatorial -> BodyMeanEquatorFrame(refObject, refObject)
      [] coordSys = BodyFixed -> BodyFixedFrame(refObject, refObject)
      [] coordSys = PhaseLock ->
            TwoVectorFrame(refObject, "RelPos", refObject, targetObject)
      [] coordSys = Chase ->
            TwoVectorFrame(refObject, "RelVel", refObject, parent(refObject))
      [] coordSys = PhaseLock_Old ->
            TwoVectorFrame(refObject, "RelPos", refObject, targetObject)
      [] coordSys = Chase_Old ->
            TwoVectorFrame(refObject, "RelVel", parent(refObject), refObject)
      [] coordSys = ObserverLocal -> J2000EclipticFrame(Nil)
      [] OTHER -> J2000EclipticFrame(refObject)

\* ObserverFrame::ObserverFrame(cs, refObject, targetObject)
ObserverFrame(coordSys, refObject, targetObject) ==
    [coordSys |-> coordSys,
     frame |-> createFrame(coordSys, refObject, targetObject),
     targetObject |-> targetObject]

\* ObserverFrame::ObserverFrame(): the default universal frame.
DefaultObserverFrame ==
    [coordSys |-> Universal,
     frame |-> createFrame(Universal, Nil, Nil),
     targetObject |-> Nil]

\* ObserverFrame::ObserverFrame(const ReferenceFrame::SharedConstPtr&)
WrappedObserverFrame(f) ==
    [coordSys |-> Unknown, frame |-> f, targetObject |-> Nil]

\* ObserverFrame::getRefObject
getRefObject(of) == of.frame.center

\* ObserverFrame::convertFromUniversal / convertToUniversal, positions
convertFromUniversalP(of, uc, t) == refFromUniversalP(of.frame, uc, t)

convertToUniversalP(of, uc, t) == refToUniversalP(of.frame, uc, t)

\* ObserverFrame::convertFromUniversal / convertToUniversal, orientations
convertFromUniversalQ(of, q, t) == refFromUniversalQ(of.frame, q, t)

convertToUniversalQ(of, q, t) == refToUniversalQ(of.frame, q, t)

\* ObserverFrame::convert(fromFrame, toFrame, uc, t)
convertP(fromFrame, toFrame, uc, t) ==
    convertFromUniversalP(toFrame, convertToUniversalP(fromFrame, uc, t), t)

\* ObserverFrame::convert(fromFrame, toFrame, q, t)
convertQ(fromFrame, toFrame, q, t) ==
    convertFromUniversalQ(toFrame, convertToUniversalQ(fromFrame, q, t), t)

(***************************************************************************)
(* Observer: constants.                                                    *)
(***************************************************************************)
\* The bounds of simTime, in ticks.
maximumSimTime == 5

minimumSimTime == -1

\* 0.25 s, in ticks.
VELOCITY_CHANGE_TIME == 2

\* Velocities are counted in units of 1 / VelocityUnit kilometres per tick;
\* VelocityEpsilon is the norm below which a blended velocity is replaced by
\* zero (1.0e-12 in the code), a speed of one unit standing for the speeds
\* below it.
VelocityUnit == 4
VelocityEpsilon == 2

\* Fractions of a journey (the interpolation window, accelTime) are held in
\* quarters: InterpUnit / InterpUnit is 1.0.
InterpUnit == 4

\* Observer::StartInterpolation, 0.25
StartInterpolation == 1

\* Observer::EndInterpolation, 0.75
EndInterpolation == 3

\* Observer::AccelerationTime, 0.5
AccelerationTime == 2

\* float has a 24 bit significand: a double in [1 - 2^-25, 1) rounds to 1.0f.
FloatHalfUlp == 33554432

Free == "Free"

Travelling == "Travelling"

Linear == "Linear"

GreatCircle == "GreatCircle"

CircularOrbit == "CircularOrbit"

TrajectoryType == {Linear, GreatCircle, CircularOrbit}

Min(a, b) == IF a <= b THEN a ELSE b

Max(a, b) == IF a >= b THEN a ELSE b

\* std::clamp(v, lo, hi)
clamp(v, lo, hi) == IF v < lo THEN lo ELSE IF v > hi THEN hi ELSE v

(***************************************************************************)
(* The calibrated expFactor.  exp() and the bisection have no lattice      *)
(* value: expFactor is carried as what it was solved for, and the profile  *)
(* x(u) it yields is replaced by the interpolant through the two values    *)
(* the calibration fixes, x(0) = 0 and x(1) = dist / 2.                    *)
(***************************************************************************)
\* The literal expFactor 0 of computeCenterParameters.
ExpFactorZero == [k |-> "0", dist |-> 0, s |-> 0]

\* The literal expFactor 0.5 of computeCenterCOParameters.
ExpFactorHalf == [k |-> "0.5", dist |-> 0, s |-> 0]

\* solve_bisection(TravelExpFunc(dist / 2, s), 0.0001, 100.0, 1e-10).first,
\* where dist is the whole length of the trip.
solveExpFactor(dist, s) == [k |-> "root", dist |-> dist, s |-> s]

\* x of Observer::update for u = un / ud, as <<numerator, denominator>> of a
\* length in kilometres.
travelProfile(expFactor, un, ud) ==
    IF expFactor.k = "root" THEN <<expFactor.dist * un, 2 * ud>> ELSE <<0, 1>>

(***************************************************************************)
(* Observer: the state after construction.                                 *)
(***************************************************************************)
\* JourneyParams has no initialiser: the journey of a new Observer holds
\* whatever the build left there.  traj is the field that is read before it
\* is written (gotoLocation never sets it): it starts as Indeterminate and
\* takes one of its values at the first read (see Update).  The other fields
\* are written by every operation that installs a journey.
Indeterminate == "Indeterminate"

UninitialisedJourney(traj) ==
    [duration |-> 0, startTime |-> 0,
     from |-> Zero, to |-> Zero,
     initialOrientation |-> Identity, finalOrientation |-> Identity,
     startInterpolation |-> 0, endInterpolation |-> 0,
     expFactor |-> ExpFactorZero, accelTime |-> 0,
     rotation1 |-> Identity, centerObject |-> Nil, traj |-> traj]

\* The member initialisers of class Observer.
ObserverFields(traj) ==
    [simTime |-> 0, realTime |-> 0,
     position |-> Zero, orientation |-> Identity,
     velocity |-> Zero, angularVelocity |-> 0,
     positionUniv |-> Zero, orientationUniv |-> Identity,
     frame |-> DefaultObserverFrame,
     targetSpeed |-> 0, targetVelocity |-> Zero, initialVelocity |-> Zero,
     beginAccelTime |-> 0,
     observerMode |-> Free, journey |-> UninitialisedJourney(traj),
     trackObject |-> Nil, trackingOrientation |-> Identity,
     reverseFlag |-> FALSE]

(***************************************************************************)
(* Observer: the operations, as functions from the observer to the         *)
(* observer after the call.                                                *)
(***************************************************************************)
\* A mutant of updateUniversal: an out-of-bounds position is committed.
updateUniversal_commitAlways(o) ==
    [o EXCEPT !.positionUniv = convertToUniversalP(o.frame, o.position, o.simTime),
              !.orientationUniv = convertToUniversalQ(o.frame, o.orientation, o.simTime)]

\* A mutant of updateUniversal: the orientation is not resynchronised.
updateUniversal_noOrientation(o) ==
    LET newPositionUniv == convertToUniversalP(o.frame, o.position, o.simTime)
    IN  IF isOutOfBounds(newPositionUniv)
        THEN [o EXCEPT !.position = convertFromUniversalP(o.frame, o.positionUniv, o.simTime)]
        ELSE [o EXCEPT !.positionUniv = newPositionUniv]

\* Observer::updateUniversal
updateUniversal(o) ==
    LET newPositionUniv == convertToUniversalP(o.frame, o.position, o.simTime)
        o1 == IF isOutOfBounds(newPositionUniv)
              THEN [o EXCEPT !.position =
                        convertFromUniversalP(o.frame, o.positionUniv, o.simTime)]
              ELSE [o EXCEPT !.positionUniv = newPositionUniv]
    IN  [o1 EXCEPT !.orientationUniv =
            convertToUniversalQ(o.frame, o1.orientation, o.simTime)]

\* Observer::Observer()
NewObserver == updateUniversal(ObserverFields(Indeterminate))

\* Observer::setTime
setTime(o, jd) == updateUniversal([o EXCEPT !.simTime = jd])

\* Observer::setPosition
setPosition(o, p) ==
    [o EXCEPT !.positionUniv = p,
              !.position = convertFromUniversalP(o.frame, p, o.simTime)]

\* Observer::setOrientation
setOrientation(o, q) ==
    [o EXCEPT !.orientationUniv = q,
              !.orientation = convertFromUniversalQ(o.frame, q, o.simTime)]

\* Observer::setVelocity
setVelocity(o, v) == [o EXCEPT !.velocity = v]

\* Observer::setAngularVelocity
setAngularVelocity(o, v) == [o EXCEPT !.angularVelocity = v]

\* Observer::setTrackedObject
setTrackedObject(o, sel) == [o EXCEPT !.trackObject = sel]

\* Observer::setMode
setMode(o, mode) == [o EXCEPT !.observerMode = mode]

\* A mutant of cancelMotion: the observer is put at the journey's end.
cancelMotion_snap(o) ==
    [o EXCEPT !.observerMode = Free,
              !.position = o.journey.to,
              !.orientation = o.journey.finalOrientation]

\* Observer::cancelMotion
cancelMotion(o) == [o EXCEPT !.observerMode = Free]

\* A mutant of convertFrameCoordinates: the frame-local values are kept and
\* the universal ones recomputed through the new frame.
convertFrameCoordinates_keepLocal(o, newFrame) ==
    [o EXCEPT !.positionUniv = convertToUniversalP(newFrame, o.position, o.simTime),
              !.orientationUniv = convertToUniversalQ(newFrame, o.orientation, o.simTime)]

\* A mutant of convertFrameCoordinates: the goto parameters are not converted.
convertFrameCoordinates_observerOnly(o, newFrame) ==
    [o EXCEPT
      !.position = convertFromUniversalP(newFrame, o.positionUniv, o.simTime),
      !.orientation = convertFromUniversalQ(newFrame, o.orientationUniv, o.simTime)]

\* Observer::convertFrameCoordinates
convertFrameCoordinates(o, newFrame) ==
    LET now == o.simTime
    IN  [o EXCEPT
          !.position = convertFromUniversalP(newFrame, o.positionUniv, now),
          !.orientation = convertFromUniversalQ(newFrame, o.orientationUniv, now),
          !.journey.from = convertP(o.frame, newFrame, o.journey.from, now),
          !.journey.initialOrientation =
              convertQ(o.frame, newFrame, o.journey.initialOrientation, now),
          !.journey.to = convertP(o.frame, newFrame, o.journey.to, now),
          !.journey.finalOrientation =
              convertQ(o.frame, newFrame, o.journey.finalOrientation, now)]

\* Observer::setFrame(cs, refObj, targetObj)
setFrame3(o, cs, refObj, targetObj) ==
    LET newFrame == ObserverFrame(cs, refObj, targetObj)
    IN  [convertFrameCoordinates(o, newFrame) EXCEPT !.frame = newFrame]

\* Observer::setFrame(cs, refObj)
setFrame(o, cs, refObj) == setFrame3(o, cs, refObj, Nil)

\* Observer::setFrame(const ObserverFrame::SharedConstPtr&).  The shared
\* frames are values here, so `frame != f` compares the frames themselves.
setFramePtr(o, f) ==
    IF o.frame # f
    THEN [convertFrameCoordinates(o, f) EXCEPT !.frame = f]
    ELSE o

(***************************************************************************)
(* Observer::update.                                                       *)
(***************************************************************************)
\* The elapsed part of the journey at realTime: t = tn / td, with t = 1 for a
\* duration that is not positive.
\* A mutant of progressNum: a journey of no duration is at its start.
progressNum_zeroAtStart(j, realTime) ==
    IF j.duration > 0 THEN clamp(realTime - j.startTime, 0, j.duration) ELSE 0

progressNum(j, realTime) ==
    IF j.duration > 0 THEN clamp(realTime - j.startTime, 0, j.duration) ELSE 1

progressDen(j) == IF j.duration > 0 THEN j.duration ELSE 1

\* t == 1.0f, t being the float nearest to the double tn / td.
progressIsOne(tn, td) == tn * FloatHalfUlp >= td * (FloatHalfUlp - 1)

\* slerp(x, v0, v1) of observer.cpp for x = xn / xd: the direction turns from
\* v0 to v1 by the shorter way, the length goes from |v0| to |v1|.  A zero v0
\* has no direction (the code divides by its norm); the lattice takes the
\* straight line there.
slerp(xn, xd, v0, v1) ==
    LET r0 == Norm(v0)
        r1 == Norm(v1)
        turn == (Quadrant(v1) - Quadrant(v0)) % 4
        angle == IF turn = 3 THEN -1 ELSE turn
        k == TDiv(angle * xn, xd)
    IN  IF r0 = 0 \/ r1 = 0
        THEN VAdd(v0, VDiv(VScale(VSub(v1, v0), xn), xd))
        ELSE VDiv(VScale(QRot(k % 4, v0), r0 * (xd - xn) + r1 * xn), xd * r0)

\* The center of a great-circle trip as update finds it: the primary body
\* of the frame's reference body, or its star.
greatCircleCenter(o) ==
    LET centerObj == getRefObject(o.frame)
    IN  IF isBody(centerObj) THEN starOf(centerObj) ELSE centerObj

\* The position p that the journey gives at t = tn / td (lines 274-373).
journeyPosition(o, tn, td) ==
    LET j == o.journey
        jv == offsetFromKm(j.to, j.from)
        firstHalf == 2 * tn < td
        un == IF firstHalf THEN 2 * tn ELSE 2 * (td - tn)
        x == travelProfile(j.expFactor, un, td)
    IN  CASE j.traj = Linear ->
               IF Norm(jv) = 0
               THEN j.from
               ELSE IF firstHalf
                    THEN offsetKm(j.from, VDiv(VScale(jv, x[1]), x[2] * Norm(jv)))
                    ELSE offsetKm(j.to, VNeg(VDiv(VScale(jv, x[1]), x[2] * Norm(jv))))
          [] j.traj = GreatCircle ->
               LET origin == getPosition(greatCircleCenter(o), o.simTime)
                   ufrom == convertToUniversalP(o.frame, j.from, o.simTime)
                   uto == convertToUniversalP(o.frame, j.to, o.simTime)
                   v0 == offsetFromKm(ufrom, origin)
                   v1 == offsetFromKm(uto, origin)
                   v == IF firstHalf
                        THEN slerp(x[1], x[2] * Norm(jv), v0, v1)
                        ELSE slerp(x[1], x[2] * Norm(jv), v1, v0)
               IN  IF Norm(jv) = 0
                   THEN j.from
                   ELSE convertFromUniversalP(o.frame, offsetKm(origin, v), o.simTime)
          [] OTHER ->
               LET origin == getPosition(getRefObject(o.frame), o.simTime)
                   ufrom == convertToUniversalP(o.frame, j.from, o.simTime)
                   v0 == offsetFromKm(ufrom, origin)
                   q == QSlerp(tn, td, Identity, j.rotation1)
               IN  IF Norm(jv) = 0
                   THEN j.from
                   ELSE convertFromUniversalP(o.frame,
                            offsetKm(origin, QRot(QConj(q), v0)), o.simTime)

\* The orientation q that the journey gives at t = tn / td (lines 375-405).
\* v = sin^2(pi/2 * r) is below 1/2 exactly when r is, r being the part of
\* the interpolation window that has passed.
journeyOrientation(o, tn, td) ==
    LET j == o.journey
        afterStart == tn * InterpUnit >= j.startInterpolation * td
        beforeEnd == tn * InterpUnit < j.endInterpolation * td
        rn == tn * InterpUnit - j.startInterpolation * td
        rd == (j.endInterpolation - j.startInterpolation) * td
    IN  IF afterStart /\ beforeEnd
        THEN IF j.traj = CircularOrbit
             THEN QSlerp(tn, td, j.initialOrientation, j.finalOrientation)
             ELSE QSlerp(rn, rd, j.initialOrientation, j.finalOrientation)
        ELSE IF ~afterStart
             THEN j.initialOrientation
             ELSE j.finalOrientation

\* The journey's part of update (lines 266-422): if (observerMode ==
\* Travelling).
updateJourney(o) ==
    LET tn == progressNum(o.journey, o.realTime)
        td == progressDen(o.journey)
        \* if (t == 1.0f), o1 being the observer on its trajectory
        arrive(o1) ==
            IF progressIsOne(tn, td)
            THEN [o1 EXCEPT
                   !.position = IF o.journey.traj # CircularOrbit
                                THEN o.journey.to
                                ELSE @,
                   !.orientation = IF o.journey.traj # CircularOrbit
                                   THEN o.journey.finalOrientation
                                   ELSE @,
                   !.observerMode = Free,
                   !.velocity = Zero]
            ELSE o1
    IN  IF o.observerMode = Travelling
        THEN arrive([o EXCEPT !.position = journeyPosition(o, tn, td),
                              !.orientation = journeyOrientation(o, tn, td)])
        ELSE o

\* The blended velocity that is set (lines 429-432): zero when its norm is
\* below the threshold.
significant(v) == IF Norm(v) < VelocityEpsilon THEN Zero ELSE v

\* A mutant of updateVelocity: the velocity is set to the target at once.
updateVelocity_atOnce(o) ==
    IF o.velocity # o.targetVelocity
    THEN setVelocity(o, significant(o.targetVelocity))
    ELSE o

\* The manual velocity ramp (lines 424-434).
updateVelocity(o) ==
    IF o.velocity # o.targetVelocity
    THEN LET t == clamp(o.realTime - o.beginAccelTime, 0, VELOCITY_CHANGE_TIME)
             v == VDiv(VAdd(VScale(o.velocity, VELOCITY_CHANGE_TIME - t),
                            VScale(o.targetVelocity, t)),
                       VELOCITY_CHANGE_TIME)
         IN  setVelocity(o, significant(v))
    ELSE o

\* The angular velocity's part of update (lines 439-446): the orientation is
\* turned by angularVelocity * dt, from the left.
updateOrientation(o, dt) ==
    IF o.observerMode = Free
    THEN [o EXCEPT !.orientation = QMul((o.angularVelocity * dt) % 4, o.orientation)]
    ELSE o

\* The tracking part of update (lines 452-458).
updateTracking(o) ==
    IF ~empty(o.trackObject)
    THEN LET viewDir == offsetFromKm(getPosition(o.trackObject, o.simTime),
                                     o.positionUniv)
         IN  setOrientation(o, LookAt(viewDir))
    ELSE o

\* velocity * dt, in whole kilometres.
displacement(v, dt) == VDiv(VScale(v, dt), VelocityUnit)

\* position = position.offsetKm(velocity * dt) (line 437).
updatePosition(o, dt) ==
    [o EXCEPT !.position = offsetKm(o.position, displacement(o.velocity, dt))]

\* A mutant of updateTime: simTime is not kept in its range.
updateTime_unclamped(o, dt, timeScale) ==
    [o EXCEPT !.realTime = o.realTime + dt,
              !.simTime = o.simTime + dt * timeScale]

\* realTime and simTime (lines 258-264).
updateTime(o, dt, timeScale) ==
    [o EXCEPT !.realTime = o.realTime + dt,
              !.simTime = LET s == o.simTime + dt * timeScale
                          IN  IF s >= maximumSimTime THEN maximumSimTime
                              ELSE IF s <= minimumSimTime THEN minimumSimTime
                              ELSE s]

\* A mutant of update: tracking runs before updateUniversal.
update_trackFirst(o, dt, timeScale) ==
    updateUniversal(updateTracking(
        updateOrientation(
            updatePosition(updateVelocity(updateJourney(updateTime(o, dt, timeScale))),
                           dt),
            dt)))

\* A mutant of update: the journey stage runs after the velocity's, so that
\* an arrival overrides the displacement of the same tick.
update_journeyLast(o, dt, timeScale) ==
    updateTracking(updateUniversal(
        updateOrientation(
            updateJourney(updatePosition(updateVelocity(updateTime(o, dt, timeScale)),
                                         dt)),
            dt)))

\* A mutant of update: a journey is complete only after its arrival time.
update_lateArrival(o, dt, timeScale) ==
    LET late(o1, o2) ==
            IF o1.observerMode = Travelling
               /\ o1.realTime <= o1.journey.startTime + o1.journey.duration
            THEN [o2 EXCEPT !.observerMode = Travelling]
            ELSE o2
        journey(o1) == late(o1, updateJourney(o1))
    IN  updateTracking(updateUniversal(
            updateOrientation(
                updatePosition(updateVelocity(journey(updateTime(o, dt, timeScale))),
                               dt),
                dt)))

\* Observer::update
update(o, dt, timeScale) ==
    updateTracking(updateUniversal(
        updateOrientation(
            updatePosition(updateVelocity(updateJourney(updateTime(o, dt, timeScale))),
                           dt),
            dt)))

(***************************************************************************)
(* Journeys: the goto and center family.                                   *)
(***************************************************************************)
\* v scaled to the length num / den: v.normalized() * (num / den).
scaleTo(v, num, den) ==
    IF Norm(v) = 0 THEN Zero ELSE VDiv(VScale(v, num), den * Norm(v))

\* Location::getSize()
locationSize(sel) == 0

\* getPreferredDistance, in kilometres
getPreferredDistance(sel) ==
    CASE isBody(sel) -> 5 * radius(sel)
      [] isStar(sel) -> 100 * radius(sel)
      [] isLocation(sel) ->
            Max(Min(locationSize(sel) * 50, 5 * radius(parent(sel))), 1)
      [] OTHER -> 1

\* A mutant of getOrbitDistance: the two cases are exchanged.
getOrbitDistance_zoomWhenFar(sel, currentDistance) ==
    LET maxDist == getPreferredDistance(sel)
        minDist == 101 * radius(sel)
        dist == IF currentDistance > maxDist * 10
                THEN 10 * currentDistance
                ELSE 100 * maxDist
    IN  Max(dist, minDist)

\* getOrbitDistance, in hundredths of a kilometre
getOrbitDistance(sel, currentDistance) ==
    LET maxDist == getPreferredDistance(sel)
        minDist == 101 * radius(sel)
        dist == IF currentDistance > maxDist * 10
                THEN 100 * maxDist
                ELSE 10 * currentDistance
    IN  Max(dist, minDist)

\* The orientation of the frame that an offset or an up vector is given in
\* (lines 551-559): the observer's own for ObserverLocal.
offsetOrientation(o, coordSys, destination) ==
    IF coordSys = ObserverLocal
    THEN o.orientationUniv
    ELSE frameOrientation(ObserverFrame(coordSys, destination, Nil).frame, o.simTime)

\* The last lines of every compute...Parameters: the journey's end points
\* are converted to frame coordinates.
toFrameCoordinates(o, j) ==
    [j EXCEPT
      !.from = convertFromUniversalP(o.frame, j.from, o.simTime),
      !.initialOrientation = convertFromUniversalQ(o.frame, j.initialOrientation, o.simTime),
      !.to = convertFromUniversalP(o.frame, j.to, o.simTime),
      !.finalOrientation = convertFromUniversalQ(o.frame, j.finalOrientation, o.simTime)]

\* The journey j, given in universal coordinates, becomes the observer's.
withJourney(o, j) == [o EXCEPT !.journey = toFrameCoordinates(o, j)]

\* Observer::computeGotoParameters, on the observer's own journey.
computeGotoParameters(o, destination, gotoTime, startInter, endInter, accelTime, offset, offsetCoordSys) ==
    LET \* the journey from o1, the observer in the destination's frame
        journeyTo(o1, targetPosition, to) ==
            [o1.journey EXCEPT
                !.traj = Linear,
                !.duration = gotoTime,
                !.startTime = o1.realTime,
                !.from = o1.positionUniv,
                !.to = to,
                !.initialOrientation = o1.orientationUniv,
                !.finalOrientation = LookAt(offsetFromKm(targetPosition, to)),
                !.startInterpolation = Min(startInter, endInter),
                !.endInterpolation = Max(startInter, endInter),
                !.accelTime = accelTime,
                !.expFactor = solveExpFactor(Norm(offsetFromKm(o1.positionUniv, to)),
                                             accelTime)]
        towards(o1, targetPosition) ==
            journeyTo(o1, targetPosition,
                      offsetKm(targetPosition,
                               QRot(QConj(offsetOrientation(o1, offsetCoordSys,
                                                            destination)),
                                    offset)))
        compute(o1) ==
            withJourney(o1, towards(o1, getPosition(destination, o1.simTime)))
    IN  compute(setFrame(o, IF o.frame.coordSys = PhaseLock
                            THEN Ecliptical
                            ELSE o.frame.coordSys,
                         destination))

\* Observer::computeGotoParametersGC
computeGotoParametersGC(o, destination, gotoTime, offset, offsetCoordSys, centerObj) ==
    LET \* the journey from o1, the observer in the destination's frame
        journeyTo(o1, targetPosition, to) ==
            [o1.journey EXCEPT
                !.traj = GreatCircle,
                !.duration = gotoTime,
                !.startTime = o1.realTime,
                !.centerObject = centerObj,
                !.from = o1.positionUniv,
                !.to = to,
                !.initialOrientation = o1.orientationUniv,
                !.finalOrientation = LookAt(offsetFromKm(targetPosition, to)),
                !.startInterpolation = Min(StartInterpolation, EndInterpolation),
                !.endInterpolation = Max(StartInterpolation, EndInterpolation),
                !.accelTime = AccelerationTime,
                !.expFactor = solveExpFactor(Norm(offsetFromKm(o1.positionUniv, to)),
                                             AccelerationTime)]
        towards(o1, targetPosition) ==
            journeyTo(o1, targetPosition,
                      offsetKm(targetPosition,
                               QRot(QConj(offsetOrientation(o1, offsetCoordSys,
                                                            destination)),
                                    offset)))
        compute(o1) ==
            withJourney(o1, towards(o1, getPosition(destination, o1.simTime)))
    IN  compute(setFrame(o, o.frame.coordSys, destination))

\* Observer::computeCenterParameters
computeCenterParameters(o, destination, centerTime) ==
    LET targetPosition == getPosition(destination, o.simTime)
        from == o.positionUniv
        focus == offsetFromKm(targetPosition, from)
        j == [o.journey EXCEPT
                !.duration = centerTime,
                !.startTime = o.realTime,
                !.traj = Linear,
                !.from = from,
                !.to = from,
                !.initialOrientation = o.orientationUniv,
                !.finalOrientation = LookAt(focus),
                !.startInterpolation = 0,
                !.endInterpolation = InterpUnit,
                !.accelTime = 2,
                !.expFactor = ExpFactorZero]
    IN  withJourney(o, j)

\* Observer::computeCenterCOParameters
computeCenterCOParameters(o, destination, centerTime) ==
    LET v == offsetFromKm(getPosition(destination, o.simTime), o.positionUniv)
        w == QRot(QConj(o.orientationUniv), ViewAxis)
        centerObj == getRefObject(o.frame)
        centerPos == getPosition(centerObj, o.simTime)
        q == FromTwoVectors(v, w)
        j == [o.journey EXCEPT
                !.duration = centerTime,
                !.startTime = o.realTime,
                !.traj = CircularOrbit,
                !.centerObject = centerObj,
                !.expFactor = ExpFactorHalf,
                !.from = o.positionUniv,
                !.to = offsetKm(centerPos,
                                QRot(QConj(q), offsetFromKm(o.positionUniv, centerPos))),
                !.initialOrientation = o.orientationUniv,
                !.finalOrientation = QMul(o.orientationUniv, q),
                !.startInterpolation = 0,
                !.endInterpolation = InterpUnit,
                !.rotation1 = q]
    IN  withJourney(o, j)

\* observerMode = Travelling, the last statement of every goto.
travelling(o) == [o EXCEPT !.observerMode = Travelling]

\* A mutant of centerSelectionCO: the frame's reference object is not looked at.
centerSelectionCO_noRefCheck(o, selection, centerTime) ==
    IF ~empty(selection)
    THEN travelling(computeCenterCOParameters(o, selection, centerTime))
    ELSE o

\* Observer::centerSelectionCO
centerSelectionCO(o, selection, centerTime) ==
    IF ~empty(selection) /\ ~empty(getRefObject(o.frame))
    THEN travelling(computeCenterCOParameters(o, selection, centerTime))
    ELSE o

\* Observer::centerSelection
centerSelection(o, selection, centerTime) ==
    IF ~empty(selection)
    THEN travelling(computeCenterParameters(o, selection, centerTime))
    ELSE o

\* Observer::gotoSelection(selection, gotoTime, startInter, endInter,
\* accelTime, up, upFrame)
gotoSelection7(o, selection, gotoTime, startInter, endInter, accelTime) ==
    IF ~empty(selection)
    THEN LET pos == getPosition(selection, o.simTime)
             v == offsetFromKm(pos, o.positionUniv)
             distance == Norm(v)
             orbitDistance == getOrbitDistance(selection, distance)
         IN  travelling(computeGotoParameters(o, selection, gotoTime,
                                           startInter, endInter, accelTime,
                                           VNeg(scaleTo(v, orbitDistance, 100)),
                                           Universal))
    ELSE o

\* A mutant of gotoSelection: the window is the one of the class constants.
gotoSelection_defaultWindow(o, selection, gotoTime) ==
    gotoSelection7(o, selection, gotoTime,
                   StartInterpolation, EndInterpolation, AccelerationTime)

\* Observer::gotoSelection(selection, gotoTime, up, upFrame)
gotoSelection(o, selection, gotoTime) ==
    gotoSelection7(o, selection, gotoTime, 0, 2, AccelerationTime)

\* Observer::gotoSelection(selection, gotoTime, distance, up, upFrame)
gotoSelectionDistance(o, selection, gotoTime, distance) ==
    IF ~empty(selection)
    THEN LET pos == getPosition(selection, o.simTime)
             v == offsetFromKm(pos, o.positionUniv)
         IN  travelling(computeGotoParameters(o, selection, gotoTime,
                                           StartInterpolation, EndInterpolation,
                                           AccelerationTime,
                                           VNeg(scaleTo(v, distance, 1)),
                                           Universal))
    ELSE o

\* Observer::gotoSelectionGC(selection, gotoTime, up, upFrame)
gotoSelectionGC(o, selection, gotoTime) ==
    IF ~empty(selection)
    THEN LET centerObj == parent(selection)
             pos == getPosition(selection, o.simTime)
             v == offsetFromKm(pos, getPosition(centerObj, o.simTime))
             viewVec == offsetFromKm(pos, o.positionUniv)
             orbitDistance0 == getOrbitDistance(selection, Norm(viewVec))
             maintainDist == getPreferredDistance(parent(selection))
             parentPos == offsetFromKm(getPosition(parent(selection), o.simTime),
                                       o.positionUniv)
             parentDist == Norm(parentPos) - radius(parent(selection))
             orbitDistance ==
                 IF isLocation(selection)
                    /\ parentDist <= maintainDist
                    /\ 100 * parentDist > orbitDistance0
                 THEN 100 * parentDist
                 ELSE orbitDistance0
         IN  travelling(computeGotoParametersGC(o, selection, gotoTime,
                                             scaleTo(v, orbitDistance, 100),
                                             Universal, centerObj))
    ELSE o

\* Observer::gotoSelectionGC(selection, gotoTime, distance, up, upFrame)
gotoSelectionGCDistance(o, selection, gotoTime, distance) ==
    IF ~empty(selection)
    THEN LET centerObj == parent(selection)
             pos == getPosition(selection, o.simTime)
             v == offsetFromKm(pos, getPosition(centerObj, o.simTime))
         IN  travelling(computeGotoParametersGC(o, selection, gotoTime,
                                             VNeg(scaleTo(v, distance, 1)),
                                             Universal, centerObj))
    ELSE o

\* Observer::gotoSelectionLongLat, the latitude being 0 and the longitude a
\* number of quarter turns.
gotoSelectionLongLat(o, selection, gotoTime, distance, longitude) ==
    IF ~empty(selection)
    THEN travelling(computeGotoParameters(o, selection, gotoTime,
                                       StartInterpolation, EndInterpolation,
                                       AccelerationTime,
                                       QRot(longitude, <<distance, 0>>),
                                       BodyFixed))
    ELSE o

\* A mutant of gotoLocation: the journey starts from the universal position
\* and orientation.
gotoLocation_universalStart(o, toPosition, toOrientation, duration) ==
    [o EXCEPT
      !.journey.startTime = o.realTime,
      !.journey.duration = duration,
      !.journey.from = o.positionUniv,
      !.journey.initialOrientation = o.orientationUniv,
      !.journey.to = toPosition,
      !.journey.finalOrientation = toOrientation,
      !.journey.startInterpolation = StartInterpolation,
      !.journey.endInterpolation = EndInterpolation,
      !.journey.accelTime = AccelerationTime,
      !.journey.expFactor =
          solveExpFactor(Norm(offsetFromKm(o.positionUniv, toPosition)), AccelerationTime),
      !.observerMode = Travelling]

\* Observer::gotoLocation
gotoLocation(o, toPosition, toOrientation, duration) ==
    [o EXCEPT
      !.journey.startTime = o.realTime,
      !.journey.duration = duration,
      !.journey.from = o.position,
      !.journey.initialOrientation = o.orientation,
      !.journey.to = toPosition,
      !.journey.finalOrientation = toOrientation,
      !.journey.startInterpolation = StartInterpolation,
      !.journey.endInterpolation = EndInterpolation,
      !.journey.accelTime = AccelerationTime,
      !.journey.expFactor =
          solveExpFactor(Norm(offsetFromKm(o.position, toPosition)), AccelerationTime),
      !.observerMode = Travelling]

\* Observer::gotoJourney: the caller's parameters are taken as they are,
\* but for expFactor and startTime.
gotoJourney(o, params) ==
    [o EXCEPT
      !.journey =
          [params EXCEPT
            !.expFactor =
                solveExpFactor(Norm(offsetFromKm(params.from, params.to)),
                               params.accelTime),
            !.startTime = o.realTime],
      !.observerMode = Travelling]

\* The observer's up direction: the local y axis.
UpAxis == <<0, 1>>

\* Observer::gotoSurface
gotoSurface(o, sel, duration) ==
    LET v == offsetFromKm(o.positionUniv, getPosition(sel, o.simTime))
        viewDir == QRot(QConj(o.orientationUniv), ViewAxis)
        up == QRot(QConj(o.orientationUniv), UpAxis)
        q == IF v[1] * viewDir[1] + v[2] * viewDir[2] < 0
             THEN LookAt(up)
             ELSE o.orientationUniv
        bodyFixed == ObserverFrame(BodyFixed, sel, Nil)
        bfPos == convertFromUniversalP(bodyFixed, o.positionUniv, o.simTime)
        nearSurfacePoint == scaleTo(bfPos, 10001 * radius(sel), 10000)
    IN  gotoLocation(o, nearSurfacePoint,
                     convertFromUniversalQ(bodyFixed, q, o.simTime), duration)

(***************************************************************************)
(* The direct manipulation of the observer about its reference object.     *)
(***************************************************************************)
\* Observer::getArrivalTime
getArrivalTime(o) ==
    IF o.observerMode # Travelling
    THEN o.realTime
    ELSE o.journey.startTime + o.journey.duration

\* Observer::rotate
rotate(o, q) == updateUniversal([o EXCEPT !.orientation = QMul(q, o.orientation)])

\* A mutant of orbit: the selection is the center of the rotation, but the
\* frame is left as it was.
orbit_keepFrame(o, selection, q) ==
    LET center0 == getRefObject(o.frame)
        center == IF empty(center0) THEN selection ELSE center0
    IN  IF ~empty(center)
        THEN LET focusPosition ==
                     convertFromUniversalP(o.frame, getPosition(center, o.simTime),
                                           o.simTime)
                 v == QRot(QConj(q), offsetFromKm(o.position, focusPosition))
             IN  updateUniversal([o EXCEPT !.orientation = QMul(o.orientation, q),
                                           !.position = offsetKm(focusPosition, v)])
        ELSE o

\* Observer::orbit.  The quarter turns commute, so that the rotation qd2 =
\* orientation.conjugate() * qd * orientation is q itself, and they keep
\* the length of v, so that v.normalized() * distance is v.
orbit(o, selection, q) ==
    LET center0 == getRefObject(o.frame)
        adopt == empty(center0) /\ ~empty(selection)
        center == IF adopt THEN selection ELSE center0
        o1 == IF adopt THEN setFrame(o, o.frame.coordSys, center) ELSE o
    IN  IF ~empty(center)
        THEN LET focusPosition ==
                     convertFromUniversalP(o1.frame, getPosition(center, o1.simTime),
                                           o1.simTime)
                 qd2 == QMul(QMul(QConj(o1.orientation), q), o1.orientation)
                 v == QRot(QConj(qd2), offsetFromKm(o1.position, focusPosition))
             IN  updateUniversal([o1 EXCEPT !.orientation = QMul(o1.orientation, qd2),
                                            !.position = offsetKm(focusPosition, v)])
        ELSE o1

\* A mutant of changeOrbitDistance: the dolly takes the observer out of its
\* journey.
changeOrbitDistance_cancelling(o, selection, num, den) ==
    [orbit(o, selection, Identity) EXCEPT !.observerMode = Free]

\* Observer::changeOrbitDistance, given exp(d) as the quotient num / den:
\* minOrbitDistance + naturalOrbitDistance * exp(log(r) + d) is
\* minOrbitDistance + (currentDistance - minOrbitDistance) * exp(d).  At
\* the focus itself the scale newDistance / currentDistance is 0 / 0, and
\* the observer is left where it is.
changeOrbitDistance(o, selection, num, den) ==
    LET center0 == getRefObject(o.frame)
        adopt == empty(center0) /\ ~empty(selection)
        center == IF adopt THEN selection ELSE center0
        o1 == IF adopt THEN setFrame(o, o.frame.coordSys, center) ELSE o
        focusPosition == getPosition(center, o1.simTime)
        size == radius(center)
        naturalOrbitDistance == 4 * size
        v == offsetFromKm(o1.positionUniv, focusPosition)
        currentDistance == Norm(v)
        minOrbitDistance == IF currentDistance < size
                            THEN TDiv(currentDistance, 2)
                            ELSE size
        newDistance == minOrbitDistance
                           + TDiv((currentDistance - minOrbitDistance) * num, den)
    IN  IF ~empty(center) /\ currentDistance >= minOrbitDistance
           /\ naturalOrbitDistance # 0 /\ currentDistance # 0
        THEN updateUniversal(
                 [o1 EXCEPT !.position =
                     convertFromUniversalP(o1.frame,
                         offsetKm(focusPosition,
                                  VDiv(VScale(v, newDistance), currentDistance)),
                         o1.simTime)])
        ELSE o1

(***************************************************************************)
(* The frame-switch operations and the manual speed.                       *)
(***************************************************************************)
\* Observer::follow
follow(o, selection) == setFrame(o, Ecliptical, selection)

\* Observer::geosynchronousFollow
geosynchronousFollow(o, selection) ==
    IF isBody(selection) \/ isLocation(selection) \/ isStar(selection)
    THEN setFrame(o, BodyFixed, selection)
    ELSE o

\* A mutant of phaseLock: the kind of the reference object is not tested.
phaseLock_anyReference(o, selection) ==
    LET refObject == getRefObject(o.frame)
    IN  IF selection # refObject
        THEN setFrame3(o, PhaseLock, refObject, selection)
        ELSE IF isBody(selection)
             THEN setFrame3(o, PhaseLock, selection, starOf(selection))
             ELSE o

\* Observer::phaseLock
phaseLock(o, selection) ==
    LET refObject == getRefObject(o.frame)
    IN  IF selection # refObject
        THEN IF isBody(refObject) \/ isStar(refObject)
             THEN setFrame3(o, PhaseLock, refObject, selection)
             ELSE o
        ELSE IF isBody(selection)
             THEN setFrame3(o, PhaseLock, selection, starOf(selection))
             ELSE o

\* A mutant of chase: the kind of the selection is not tested.
chase_unguarded(o, selection) == setFrame(o, Chase, selection)

\* Observer::chase
chase(o, selection) ==
    IF isBody(selection) \/ isStar(selection)
    THEN setFrame(o, Chase, selection)
    ELSE o

\* Observer::setTargetSpeed
setTargetSpeed(o, speed) ==
    LET s == IF o.reverseFlag THEN -speed ELSE speed
    IN  [o EXCEPT
          !.targetSpeed = speed,
          !.trackingOrientation =
              IF empty(o.trackObject) THEN o.orientationUniv ELSE @,
          !.targetVelocity =
              IF empty(o.trackObject)
              THEN QRot(QConj(o.orientationUniv), VScale(ViewAxis, s))
              ELSE QRot(QConj(o.trackingOrientation), VScale(ViewAxis, s)),
          !.initialVelocity = o.velocity,
          !.beginAccelTime = o.realTime]

(***************************************************************************)
(* The state: the observer, the last call made on it, and the number of    *)
(* calls made.                                                             *)
(***************************************************************************)
VARIABLES obs, last, steps

vars == <<obs, last, steps>>

\* The arguments the calls are made with.
Durations == {0, MaxDuration}

Dts == 0..MaxDt

TimeScales == {0, 1}

CoordinateSystems == {Universal, Ecliptical, Equatorial, BodyFixed, PhaseLock, Chase}

SharedFrames ==
    {DefaultObserverFrame,
     ObserverFrame(BodyFixed, Earth, Nil),
     WrappedObserverFrame(BodyFixedFrame(Sol, Sol))}

Positions == {Zero, <<MaxCoord, 0>>, <<MaxCoord + 1, 0>>}

Orientations == {1, 2}

\* A selection and a duration: nothing selected, or the body with each
\* duration.
Trips == {<<Nil, MaxDuration>>} \cup {<<Earth, d>> : d \in Durations}

\* A call: the operation, the selection and the number it was given, the
\* mode the observer was in when it was made, the time scale (of update)
\* and the value returned (of a function).
Call(op, sel, n) ==
    [op |-> op, sel |-> sel, n |-> n, mode |-> obs.observerMode,
     scale |-> 0, result |-> 0]

Step(o, call) ==
    /\ steps < MaxSteps
    /\ obs' = o
    /\ last' = call
    /\ steps' = steps + 1

Init ==
    /\ obs = NewObserver
    /\ last = [op |-> "new", sel |-> Nil, n |-> 0, mode |-> Free,
               scale |-> 0, result |-> 0]
    /\ steps = 0

\* The values an indeterminate traj may turn out to hold when update reads it.
TrajRead(o) ==
    IF o.observerMode = Travelling /\ o.journey.traj = Indeterminate
    THEN TrajectoryType
    ELSE {o.journey.traj}

Update ==
    \E dt \in Dts, timeScale \in TimeScales, traj \in TrajRead(obs) :
        Step(update([obs EXCEPT !.journey.traj = traj], dt, timeScale),
             [Call("update", Nil, dt) EXCEPT !.scale = timeScale])

\* The times setTime is given: one in the valid range, and one on either
\* side of it.
JulianDates == {minimumSimTime - 2, 1, maximumSimTime + 2}

SetTime == \E jd \in JulianDates : Step(setTime(obs, jd), Call("setTime", Nil, jd))

SetPosition ==
    \E p \in Positions : Step(setPosition(obs, p), Call("setPosition", Nil, 0))

SetOrientation ==
    \E q \in Orientations : Step(setOrientation(obs, q), Call("setOrientation", Nil, q))

SetFrame ==
    \E cs \in CoordinateSystems, refObj \in {Nil, Earth} :
        Step(setFrame(obs, cs, refObj), Call("setFrame", refObj, 0))

SetFrame3 ==
    \E targetObj \in {Sol, Site} :
        Step(setFrame3(obs, PhaseLock, Earth, targetObj), Call("setFrame3", Earth, 0))

SetFramePtr ==
    \E f \in SharedFrames : Step(setFramePtr(obs, f), Call("setFramePtr", Nil, 0))

\* The speeds setTargetSpeed is given: one below the threshold of the ramp,
\* and one kilometre per tick.
Speeds == {1, VelocityUnit}

SetTargetSpeed ==
    \E speed \in Speeds :
        Step(setTargetSpeed(obs, speed), Call("setTargetSpeed", Nil, speed))

SetAngularVelocity == Step(setAngularVelocity(obs, 1), Call("setAngularVelocity", Nil, 1))

SetTrackedObject == Step(setTrackedObject(obs, Sol), Call("setTrackedObject", Sol, 0))

SetMode ==
    \E mode \in {Free, Travelling} : Step(setMode(obs, mode), Call("setMode", Nil, 0))

CancelMotion == Step(cancelMotion(obs), Call("cancelMotion", Nil, 0))

GotoSelection ==
    \E trip \in Trips :
        Step(gotoSelection(obs, trip[1], trip[2]), Call("gotoSelection", trip[1], trip[2]))

GotoSelection7 ==
    \E trip \in Trips :
        Step(gotoSelection7(obs, trip[1], trip[2], 3, 1, AccelerationTime),
             Call("gotoSelection7", trip[1], trip[2]))

GotoSelectionDistance ==
    \E trip \in Trips :
        Step(gotoSelectionDistance(obs, trip[1], trip[2], 2),
             Call("gotoSelectionDistance", trip[1], trip[2]))

GotoSelectionGC ==
    \E trip \in Trips :
        Step(gotoSelectionGC(obs, trip[1], trip[2]),
             Call("gotoSelectionGC", trip[1], trip[2]))

GotoSelectionGCDistance ==
    \E trip \in Trips :
        Step(gotoSelectionGCDistance(obs, trip[1], trip[2], 2),
             Call("gotoSelectionGCDistance", trip[1], trip[2]))

GotoSelectionLongLat ==
    \E trip \in Trips :
        Step(gotoSelectionLongLat(obs, trip[1], trip[2], 2, 1),
             Call("gotoSelectionLongLat", trip[1], trip[2]))

GotoLocation ==
    \E toPosition \in {<<2, 1>>, <<MaxCoord + 1, 0>>}, duration \in Durations :
        Step(gotoLocation(obs, toPosition, 1, duration),
             Call("gotoLocation", Nil, duration))

\* The journeys gotoJourney is given: a linear trip of MaxDuration whose
\* interpolation window is the default one, a reversed one, or one that
\* reaches beyond both ends of the trip.
JourneyWindows == {<<StartInterpolation, EndInterpolation>>,
                   <<EndInterpolation, StartInterpolation>>,
                   <<-1, InterpUnit + 1>>}

Journeys ==
    {[duration |-> MaxDuration, startTime |-> 0,
      from |-> Zero, to |-> <<2, 1>>,
      initialOrientation |-> Identity, finalOrientation |-> 1,
      startInterpolation |-> w[1], endInterpolation |-> w[2],
      expFactor |-> ExpFactorZero, accelTime |-> AccelerationTime,
      rotation1 |-> Identity, centerObject |-> Nil, traj |-> Linear] :
         w \in JourneyWindows}

GotoJourney ==
    \E params \in Journeys :
        Step(gotoJourney(obs, params), Call("gotoJourney", Nil, params.duration))

GotoSurface ==
    \E trip \in Trips :
        Step(gotoSurface(obs, trip[1], trip[2]), Call("gotoSurface", trip[1], trip[2]))

CenterSelection ==
    \E trip \in Trips :
        Step(centerSelection(obs, trip[1], trip[2]),
             Call("centerSelection", trip[1], trip[2]))

CenterSelectionCO ==
    \E trip \in Trips :
        Step(centerSelectionCO(obs, trip[1], trip[2]),
             Call("centerSelectionCO", trip[1], trip[2]))

Follow == \E sel \in {Nil, Earth} : Step(follow(obs, sel), Call("follow", sel, 0))

GeosynchronousFollow ==
    \E sel \in {Nil, Earth} :
        Step(geosynchronousFollow(obs, sel), Call("geosynchronousFollow", sel, 0))

PhaseLockOn ==
    \E sel \in {Nil, Earth} : Step(phaseLock(obs, sel), Call("phaseLock", sel, 0))

ChaseOn == \E sel \in {Nil, Earth} : Step(chase(obs, sel), Call("chase", sel, 0))

\* The frame, the direct setters and the tick, with one journey to be in.
Next ==
    \/ Update
    \/ SetTime
    \/ SetPosition
    \/ SetOrientation
    \/ SetFrame
    \/ SetFrame3
    \/ SetFramePtr
    \/ SetTargetSpeed
    \/ SetAngularVelocity
    \/ SetTrackedObject
    \/ GotoLocation

Spec == Init /\ [][Next]_vars

\* The journeys: every goto and center operation, the frame-switch
\* operations, the manual speed, the cancellation and the tick.
JourneyNext ==
    \/ Update
    \/ SetTargetSpeed
    \/ SetAngularVelocity
    \/ SetTrackedObject
    \/ SetMode
    \/ CancelMotion
    \/ GotoSelection
    \/ GotoSelection7
    \/ GotoSelectionDistance
    \/ GotoSelectionGC
    \/ GotoSelectionGCDistance
    \/ GotoSelectionLongLat
    \/ GotoLocation
    \/ GotoJourney
    \/ GotoSurface
    \/ CenterSelection
    \/ CenterSelectionCO
    \/ Follow
    \/ GeosynchronousFollow
    \/ PhaseLockOn
    \/ ChaseOn

JourneySpec == Init /\ [][JourneyNext]_vars

\* The distance functions of the gotos, applied to a selection of any kind
\* at a current distance of 0 to MaxDistance kilometres: the call is drawn
\* at the start, and each function leaves its value in the call record.
DistanceInit ==
    /\ obs = NewObserver
    /\ \E sel \in Selections, currentDistance \in 0..MaxDistance :
           last = [op |-> "new", sel |-> sel, n |-> currentDistance, mode |-> Free,
                   scale |-> 0, result |-> 0]
    /\ steps = 0

GetPreferredDistance ==
    /\ last' = [last EXCEPT !.op = "getPreferredDistance",
                            !.result = getPreferredDistance(last.sel)]
    /\ UNCHANGED <<obs, steps>>

GetOrbitDistance ==
    /\ last' = [last EXCEPT !.op = "getOrbitDistance",
                            !.result = getOrbitDistance(last.sel, last.n)]
    /\ UNCHANGED <<obs, steps>>

DistanceNext ==
    \/ GetPreferredDistance
    \/ GetOrbitDistance

DistanceSpec == DistanceInit /\ [][DistanceNext]_vars

\* The frame-switch operations called with a selection of any kind.
FollowAny == \E sel \in Selections : Step(follow(obs, sel), Call("follow", sel, 0))

GeosynchronousFollowAny ==
    \E sel \in Selections :
        Step(geosynchronousFollow(obs, sel), Call("geosynchronousFollow", sel, 0))

PhaseLockAny ==
    \E sel \in Selections : Step(phaseLock(obs, sel), Call("phaseLock", sel, 0))

ChaseAny == \E sel \in Selections : Step(chase(obs, sel), Call("chase", sel, 0))

\* The frames: the frame-switch operations on every kind of selection, a
\* frame supplied by the caller, a goto, the direct setters and the tick.
FrameNext ==
    \/ FollowAny
    \/ GeosynchronousFollowAny
    \/ PhaseLockAny
    \/ ChaseAny
    \/ SetFramePtr
    \/ GotoSelection
    \/ SetPosition
    \/ SetOrientation
    \/ SetTime
    \/ Update

FrameSpec == Init /\ [][FrameNext]_vars

\* The direct manipulation: orbit, changeOrbitDistance and rotate with a
\* selection of any kind, the frame-switch operations, the direct setters,
\* the manual speed and the tracked object, with a goto to be in flight and
\* the tick.
Orbit ==
    \E sel \in Selections, q \in Orientations :
        Step(orbit(obs, sel, q), Call("orbit", sel, q))

\* The dolly factors exp(d) changeOrbitDistance is given: a half and two.
ChangeOrbitDistance ==
    \E sel \in {Nil, Earth}, num \in {1, 4} :
        Step(changeOrbitDistance(obs, sel, num, 2), Call("changeOrbitDistance", sel, num))

Rotate == \E q \in Orientations : Step(rotate(obs, q), Call("rotate", Nil, q))

ManipulationNext ==
    \/ Orbit
    \/ ChangeOrbitDistance
    \/ Rotate
    \/ SetFrame
    \/ Follow
    \/ GeosynchronousFollow
    \/ PhaseLockOn
    \/ ChaseOn
    \/ SetPosition
    \/ SetOrientation
    \/ SetTime
    \/ SetTargetSpeed
    \/ SetTrackedObject
    \/ GotoSelection
    \/ Update

ManipulationSpec == Init /\ [][ManipulationNext]_vars

\* The observer placed anywhere and centred: setPosition with a position on
\* either side of the bounds, a frame supplied by the caller, centerSelection
\* and the tick, in behaviours of one call more than MaxSteps.
PlacementInit ==
    /\ obs = NewObserver
    /\ last = [op |-> "new", sel |-> Nil, n |-> 0, mode |-> Free,
               scale |-> 0, result |-> 0]
    /\ steps = -1

PlacementNext ==
    \/ SetPosition
    \/ SetFramePtr
    \/ CenterSelection
    \/ Update

PlacementSpec == PlacementInit /\ [][PlacementNext]_vars

(***************************************************************************)
(* Properties of the frame and of the universal state, under Spec.         *)
(***************************************************************************)
SetFrameOps == {"setFrame", "setFrame3", "setFramePtr"}

\* C1: every setFrame overload leaves the universal position and the
\* universal orientation (what getPosition and getOrientation return) as
\* they were, in either mode; only the frame-local state is re-expressed.
C1_SetFrameKeepsUniversal ==
    [][last'.op \in SetFrameOps =>
           /\ obs'.positionUniv = obs.positionUniv
           /\ obs'.orientationUniv = obs.orientationUniv]_vars

\* A frame set on a travelling observer, at a time when the new frame is
\* displaced and turned against the universal one.
C1_Witness ==
    /\ last.op \in SetFrameOps
    /\ last.mode = Travelling
    /\ obs.frame.coordSys = BodyFixed
    /\ obs.simTime > 0
    /\ obs.position # obs.positionUniv
    /\ obs.orientation # obs.orientationUniv

\* C2: the frame-local position and orientation, taken to universal
\* coordinates at simTime, are positionUniv and orientationUniv; when that
\* image of the position is out of bounds, the local position is instead
\* positionUniv taken into the frame.
C2_UniversalConsistent ==
    /\ \/ convertToUniversalP(obs.frame, obs.position, obs.simTime) = obs.positionUniv
       \/ /\ isOutOfBounds(convertToUniversalP(obs.frame, obs.position, obs.simTime))
          /\ obs.position
                 = convertFromUniversalP(obs.frame, obs.positionUniv, obs.simTime)
    /\ convertToUniversalQ(obs.frame, obs.orientation, obs.simTime)
           = obs.orientationUniv

\* A tick has moved and turned an observer whose frame is turned against the
\* universal one.
C2_Witness ==
    /\ last.op = "update"
    /\ last.n > 0
    /\ obs.velocity # Zero
    /\ obs.frame.coordSys # Universal
    /\ obs.orientation # obs.orientationUniv
    /\ obs.position # obs.positionUniv

\* C9: updateUniversal takes the local position to universal coordinates at
\* simTime; an image out of bounds is not committed, positionUniv stays and
\* the local position is re-derived from it, so that the displacement that
\* was attempted is discarded; orientationUniv is recomputed in any case.
\* Seen at setTime, which does nothing else, and at the tick of a free
\* observer, whose attempted position is position + velocity * dt.
C9_OutOfBoundsDiscarded ==
    [][(last'.op = "setTime" \/ (last'.op = "update" /\ obs.observerMode = Free)) =>
           LET dt == IF last'.op = "update" THEN last'.n ELSE 0
               attempted == offsetKm(obs.position, displacement(obs'.velocity, dt))
               image == convertToUniversalP(obs.frame, attempted, obs'.simTime)
           IN  /\ IF isOutOfBounds(image)
                  THEN /\ obs'.positionUniv = obs.positionUniv
                       /\ obs'.position = convertFromUniversalP(obs.frame,
                                              obs.positionUniv, obs'.simTime)
                  ELSE /\ obs'.positionUniv = image
                       /\ obs'.position = attempted
               /\ obs'.orientationUniv
                      = convertToUniversalQ(obs.frame, obs'.orientation, obs'.simTime)]_vars

\* A tick of a moving observer at the bound: the step outwards was discarded.
C9_Witness ==
    /\ last.op = "update"
    /\ last.mode = Free
    /\ last.n > 0
    /\ obs.frame.coordSys = Universal
    /\ obs.velocity = <<VelocityUnit, 0>>
    /\ obs.positionUniv = <<MaxCoord, 0>>
    /\ obs.position = <<MaxCoord, 0>>
    /\ steps = 3

\* Whether the journey of o is complete at the real time rt: t = 1.
arrived(o, rt) ==
    o.journey.duration = 0 \/ rt - o.journey.startTime >= o.journey.duration

\* The position and the orientation the journey stage of a tick leaves, seen
\* from the states before (o) and after (n) the tick.
journeyStagePosition(o, n) ==
    IF o.observerMode # Travelling THEN o.position
    ELSE IF arrived(n, n.realTime) /\ n.journey.traj # CircularOrbit THEN n.journey.to
    ELSE journeyPosition([n EXCEPT !.observerMode = Travelling],
                         progressNum(n.journey, n.realTime), progressDen(n.journey))

journeyStageOrientation(o, n) ==
    IF o.observerMode # Travelling THEN o.orientation
    ELSE IF arrived(n, n.realTime) /\ n.journey.traj # CircularOrbit
         THEN n.journey.finalOrientation
    ELSE journeyOrientation(n, progressNum(n.journey, n.realTime),
                            progressDen(n.journey))

\* C10: the stages of one tick run in the order: time, journey, velocity
\* ramp and position += velocity * dt, angular velocity (Free only),
\* updateUniversal, tracking.  So the position after the tick is the
\* journey's position displaced by the ramped velocity; an observer that is
\* Free after the journey stage is turned by angularVelocity * dt; and with
\* a tracked object the universal orientation is the look-at orientation
\* from the universal position committed in this tick towards the tracked
\* object at the new simTime.
C10_StageOrder ==
    [][last'.op = "update" =>
           LET dt == last'.n
               attempted == offsetKm(journeyStagePosition(obs, obs'),
                                     displacement(obs'.velocity, dt))
               image == convertToUniversalP(obs.frame, attempted, obs'.simTime)
               turned == IF obs'.observerMode = Free
                         THEN QMul((obs.angularVelocity * dt) % 4,
                                   journeyStageOrientation(obs, obs'))
                         ELSE journeyStageOrientation(obs, obs')
           IN  /\ obs'.realTime = obs.realTime + dt
               /\ ~isOutOfBounds(image) =>
                      obs'.position = attempted /\ obs'.positionUniv = image
               /\ empty(obs.trackObject) => obs'.orientation = turned
               /\ ~empty(obs.trackObject) =>
                      obs'.orientationUniv
                          = LookAt(offsetFromKm(
                                getPosition(obs.trackObject, obs'.simTime),
                                obs'.positionUniv))]_vars

\* A tick has carried a tracking observer past the object it tracks: it
\* looks back at it from where it is now.
C10_Witness ==
    /\ last.op = "update"
    /\ last.n > 0
    /\ obs.trackObject = Sol
    /\ obs.velocity # Zero
    /\ obs.positionUniv = <<2, 0>>
    /\ obs.orientationUniv = LookAt(<<-1, 0>>)
    /\ obs.orientationUniv # LookAt(<<1, 0>>)

(***************************************************************************)
(* Properties of journeys, under JourneySpec.                              *)
(***************************************************************************)
\* The operations that install a journey.
InstallOps ==
    {"gotoSelection", "gotoSelection7", "gotoSelectionDistance", "gotoSelectionGC",
     "gotoSelectionGCDistance", "gotoSelectionLongLat", "gotoLocation",
     "gotoSurface", "centerSelection", "centerSelectionCO"}

\* The velocity the ramp of a tick leaves when it starts from rest.
rampFromRest(n) ==
    LET a == clamp(n.realTime - n.beginAccelTime, 0, VELOCITY_CHANGE_TIME)
        v == VDiv(VScale(n.targetVelocity, a), VELOCITY_CHANGE_TIME)
    IN  IF Norm(v) < VelocityEpsilon THEN Zero ELSE v

\* What the tick that completes a journey leaves, o before and n after it,
\* the journey stage having put the observer at the position p: the observer
\* is Free, its velocity is ramped up from rest, it stands at p displaced by
\* velocity * dt (unless that is out of bounds), and it has the final
\* orientation turned by angularVelocity * dt, or looks at what it tracks.
completedAt(o, n, dt, p) ==
    LET attempted == offsetKm(p, displacement(n.velocity, dt))
        image == convertToUniversalP(o.frame, attempted, n.simTime)
    IN  /\ n.observerMode = Free
        /\ n.velocity = rampFromRest(n)
        /\ IF isOutOfBounds(image)
           THEN n.position = convertFromUniversalP(o.frame, o.positionUniv, n.simTime)
           ELSE n.position = attempted
        /\ IF empty(o.trackObject)
           THEN n.orientation = QMul((o.angularVelocity * dt) % 4,
                                     o.journey.finalOrientation)
           ELSE n.orientationUniv
                    = LookAt(offsetFromKm(getPosition(o.trackObject, n.simTime),
                                          n.positionUniv))
        /\ (/\ o.targetVelocity = Zero
            /\ (o.angularVelocity * dt) % 4 = 0
            /\ empty(o.trackObject)
            /\ ~isOutOfBounds(convertToUniversalP(o.frame, p, n.simTime)))
           => n.position = p /\ n.orientation = o.journey.finalOrientation

\* A tick brings a Linear or GreatCircle journey of positive duration to or
\* past its arrival time.
completesTimedJourney ==
    /\ last'.op = "update"
    /\ obs.observerMode = Travelling
    /\ obs.journey.duration > 0
    /\ obs'.journey.traj \in {Linear, GreatCircle}
    /\ obs'.realTime - obs.journey.startTime >= obs.journey.duration

\* C3 as stated: once the ticks have advanced realTime by the duration, the
\* observer is Free, at journey.to, with journey.finalOrientation, whatever
\* its velocity, targetVelocity, angular velocity and tracked object are.
C3_AsStated ==
    [][completesTimedJourney =>
           /\ obs'.observerMode = Free
           /\ obs'.position = obs.journey.to
           /\ obs'.orientation = obs.journey.finalOrientation]_vars

\* C3, amended: the tick that completes a Linear or GreatCircle journey
\* leaves the observer Free and snapped to journey.to and
\* journey.finalOrientation before the later stages of the same tick, which
\* displace it by the velocity ramped from rest towards targetVelocity, turn
\* it by angularVelocity * dt, or make it look at the tracked object; it is
\* at journey.to with journey.finalOrientation when targetVelocity and the
\* turn are zero, nothing is tracked and journey.to is in bounds.
C3_CompletionSnap ==
    [][completesTimedJourney =>
           completedAt(obs, obs', last'.n, obs.journey.to)]_vars

\* A journey has just been completed by an observer with a target speed: it
\* is Free and stands off journey.to.
C3_Witness ==
    /\ last.op = "update"
    /\ last.mode = Travelling
    /\ obs.observerMode = Free
    /\ obs.journey.duration > 0
    /\ obs.journey.traj \in {Linear, GreatCircle}
    /\ obs.realTime >= obs.journey.startTime + obs.journey.duration
    /\ obs.targetVelocity # Zero
    /\ obs.position # obs.journey.to

\* The tick that follows the installation of a journey of duration 0.
resolvesInstantJourney ==
    /\ last.op \in InstallOps
    /\ last'.op = "update"
    /\ obs.observerMode = Travelling
    /\ obs.journey.duration = 0

\* C4 as stated: the first tick after a journey of duration 0 was installed
\* sets position and orientation to the journey's destination and the mode
\* to Free, whatever its dt.
C4_AsStated ==
    [][resolvesInstantJourney =>
           /\ obs'.observerMode = Free
           /\ obs'.position = obs.journey.to
           /\ obs'.orientation = obs.journey.finalOrientation]_vars

\* C4, amended: the first tick after a journey of duration 0 was installed
\* takes t = 1 and completes it, whatever its dt: the observer is Free, and
\* the journey stage puts it at the destination (journey.to, or the end of
\* the orbit for a CircularOrbit) with journey.finalOrientation, before the
\* later stages of the same tick displace it by velocity * dt, turn it by
\* angularVelocity * dt or make it look at the tracked object.
C4_InstantJourney ==
    [][resolvesInstantJourney =>
           completedAt(obs, obs', last'.n, journeyStagePosition(obs, obs'))]_vars

\* A journey of duration 0 has been resolved by a tick of positive dt for an
\* observer with a target speed: it is Free and stands off journey.to.
C4_Witness ==
    /\ last.op = "update"
    /\ last.mode = Travelling
    /\ last.n > 0
    /\ obs.observerMode = Free
    /\ obs.journey.duration = 0
    /\ obs.targetVelocity # Zero
    /\ obs.position # obs.journey.to

\* The goto and center operations that are given a selection, and the
\* trajectory each of them installs.
SelectionGotoOps == InstallOps \ {"gotoLocation"}

installedTraj(op) ==
    CASE op \in {"gotoSelectionGC", "gotoSelectionGCDistance"} -> {GreatCircle}
      [] op = "centerSelectionCO" -> {CircularOrbit}
      [] op = "gotoSurface" -> TrajectoryType \cup {Indeterminate}
      [] OTHER -> {Linear}

\* C5 as stated: after any goto or center operation on a selection that is
\* not empty the observer is Travelling.
C5_AsStated ==
    (last.op \in SelectionGotoOps /\ ~empty(last.sel)) =>
        obs.observerMode = Travelling

\* C5, amended: a goto or center operation on a selection that is not empty
\* installs a journey that starts at the current real time and lasts as long
\* as asked and leaves the observer Travelling, except centerSelectionCO in a
\* frame without a reference object, which changes nothing.
C5_GotoStartsJourney ==
    [][(last'.op \in SelectionGotoOps /\ ~empty(last'.sel)) =>
           IF last'.op = "centerSelectionCO" /\ empty(getRefObject(obs.frame))
           THEN obs' = obs
           ELSE /\ obs'.observerMode = Travelling
                /\ obs'.journey.startTime = obs.realTime
                /\ obs'.journey.duration = last'.n
                /\ obs'.journey.traj \in installedTraj(last'.op)]_vars

\* centerSelectionCO on a body has left an observer in the universal frame
\* Free.
C5_Witness ==
    /\ last.op = "centerSelectionCO"
    /\ last.sel = Earth
    /\ empty(getRefObject(obs.frame))
    /\ obs.observerMode = Free

\* The operations that C6 names.
EmptyNoOps ==
    SelectionGotoOps \cup {"follow", "geosynchronousFollow", "chase"}

\* C6 as stated: a goto, center, chase or follow operation on an empty
\* selection changes nothing: not the mode, the journey, the frame, the
\* position or the orientation.
C6_AsStated ==
    [][(last'.op \in EmptyNoOps /\ empty(last'.sel)) => obs' = obs]_vars

C8_CancelMotion ==
    [][/\ last'.op = "cancelMotion" => obs' = [obs EXCEPT !.observerMode = Free]
       /\ (last.op = "cancelMotion" /\ last'.op = "update") =>
              LET attempted == offsetKm(obs.position,
                                        displacement(obs'.velocity, last'.n))
                  image == convertToUniversalP(obs.frame, attempted, obs'.simTime)
              IN  /\ obs'.observerMode = Free
                  /\ obs'.journey = obs.journey
                  /\ ~isOutOfBounds(image) => obs'.position = attempted
                  /\ empty(obs.trackObject) =>
                         obs'.orientation
                             = QMul((obs.angularVelocity * last'.n) % 4,
                                    obs.orientation)]_vars

\* A journey of positive duration has been cancelled and a tick has passed
\* its arrival time: the observer is Free and not at journey.to.
C8_Witness ==
    /\ last.op = "update"
    /\ last.mode = Free
    /\ last.n > 0
    /\ obs.journey.duration > 0
    /\ obs.realTime >= obs.journey.startTime + obs.journey.duration
    /\ obs.observerMode = Free
    /\ obs.velocity = Zero
    /\ obs.position # obs.journey.to
    /\ obs.orientation # obs.journey.finalOrientation

(***************************************************************************)
(* Properties of the clock, under Spec.                                    *)
(***************************************************************************)
\* C11: every update(dt, timeScale) adds dt to realTime and sets simTime to
\* the previous simTime + dt * timeScale clamped into [minimumSimTime,
\* maximumSimTime]; so simTime is in that range after any update, whatever
\* it was before and whatever setTime had put there.
C11_ClockAdvance ==
    [][last'.op = "update" =>
           /\ obs'.realTime = obs.realTime + last'.n
           /\ obs'.simTime
                  = clamp(obs.simTime + last'.n * last'.scale,
                          minimumSimTime, maximumSimTime)
           /\ obs'.simTime >= minimumSimTime
           /\ obs'.simTime <= maximumSimTime]_vars

\* A tick has brought back into the range a simTime that setTime had put
\* beyond its upper end.
C11_Witness ==
    /\ last.op = "update"
    /\ last.n > 0
    /\ last.scale = 1
    /\ steps = 2
    /\ obs.realTime = last.n
    /\ obs.simTime = maximumSimTime

(***************************************************************************)
(* Properties of the frame-switch operations, under FrameSpec.             *)
(***************************************************************************)
\* C12: follow(sel) installs a frame tagged Ecliptical whose reference
\* object is sel; geosynchronousFollow(sel) installs a BodyFixed frame on
\* sel when sel is a body, a location or a star and otherwise leaves the
\* frame unchanged; chase(sel) installs a Chase frame on sel when sel is a
\* body or a star and otherwise leaves the frame unchanged; none of the
\* three changes the universal position or orientation.
C12_FollowFrames ==
    [][LET sel == last'.sel
           installed(cs) ==
               /\ obs'.frame.coordSys = cs
               /\ getRefObject(obs'.frame) = sel
       IN  /\ last'.op = "follow" => installed(Ecliptical)
           /\ last'.op = "geosynchronousFollow" =>
                  IF isBody(sel) \/ isLocation(sel) \/ isStar(sel)
                  THEN installed(BodyFixed)
                  ELSE obs'.frame = obs.frame
           /\ last'.op = "chase" =>
                  IF isBody(sel) \/ isStar(sel)
                  THEN installed(Chase)
                  ELSE obs'.frame = obs.frame
           /\ last'.op \in {"follow", "geosynchronousFollow", "chase"} =>
                  /\ obs'.positionUniv = obs.positionUniv
                  /\ obs'.orientationUniv = obs.orientationUniv]_vars

\* geosynchronousFollow has put an observer that is away from the origin
\* into the body-fixed frame of a location.
C12_Witness ==
    /\ last.op = "geosynchronousFollow"
    /\ last.sel = Site
    /\ obs.frame.coordSys = BodyFixed
    /\ getRefObject(obs.frame) = Site
    /\ obs.positionUniv # Zero

\* The frame is tagged PhaseLock, with the given reference and target.
phaseLocked(of, ref, target) ==
    /\ of.coordSys = PhaseLock
    /\ getRefObject(of) = ref
    /\ of.targetObject = target

\* The universal position and orientation are left as they were.
universalKept ==
    /\ obs'.positionUniv = obs.positionUniv
    /\ obs'.orientationUniv = obs.orientationUniv

\* C13 as stated: phaseLock(sel) always installs a PhaseLock frame, between
\* the current reference object and sel when they differ, and between sel
\* and its star when sel is the current reference object.
C13_AsStated ==
    [][last'.op = "phaseLock" =>
           LET sel == last'.sel
               ref == getRefObject(obs.frame)
           IN  /\ IF sel # ref
                  THEN phaseLocked(obs'.frame, ref, sel)
                  ELSE phaseLocked(obs'.frame, sel, starOf(sel))
               /\ universalKept
               /\ ~(/\ obs'.frame.coordSys = PhaseLock
                    /\ getRefObject(obs'.frame) = obs'.frame.targetObject)]_vars

\* C13: phaseLock(sel): when sel differs from the frame's current reference
\* object and that reference object is a body or a star, the new frame is
\* PhaseLock with that reference object as reference and sel as target;
\* when sel is the current reference object and is a body, the new frame is
\* PhaseLock with sel as reference and sel's star as target; in every other
\* case the frame is left as it was.  In all cases the universal position
\* and orientation are unchanged, and the frame never becomes a PhaseLock
\* frame whose reference and target are the same object.
C13_PhaseLock ==
    [][last'.op = "phaseLock" =>
           LET sel == last'.sel
               ref == getRefObject(obs.frame)
           IN  /\ CASE sel # ref /\ (isBody(ref) \/ isStar(ref)) ->
                         phaseLocked(obs'.frame, ref, sel)
                     [] sel = ref /\ isBody(sel) ->
                         phaseLocked(obs'.frame, sel, starOf(sel))
                     [] OTHER -> obs'.frame = obs.frame
               /\ universalKept
               /\ obs'.frame # obs.frame =>
                      getRefObject(obs'.frame) # obs'.frame.targetObject]_vars

\* phaseLock on the body the frame is anchored at has re-anchored the frame
\* with the body's star as target, the observer being away from the origin.
C13_Witness ==
    /\ last.op = "phaseLock"
    /\ last.sel = Earth
    /\ phaseLocked(obs.frame, Earth, Sol)
    /\ obs.positionUniv # Zero

(***************************************************************************)
(* Properties of the construction of frames, under Spec.                   *)
(***************************************************************************)
\* The frame is an inertial J2000-ecliptic frame centered at the object.
eclipticAt(of, center) ==
    /\ of.frame.kind = "J2000Ecliptic"
    /\ getRefObject(of) = center

\* C14 as stated: the frame setFrame(tag, refObject) builds from tag
\* Universal or Ecliptical is a J2000-ecliptic frame whose center is
\* refObject.
C14_AsStated ==
    [][last'.op = "setFrame" /\ obs'.frame.coordSys \in {Universal, Ecliptical}
           => eclipticAt(obs'.frame, last'.sel)]_vars

\* C14: an ObserverFrame built from tag Ecliptical and a reference object
\* wraps an inertial J2000-ecliptic frame whose center (getRefObject()) is
\* that reference object, and is the barycenter (empty selection) only
\* when the reference object given is empty; one built from tag Universal
\* wraps an inertial J2000-ecliptic frame whose center is the barycenter
\* whatever reference object is given.
C14_EclipticFrames ==
    [][last'.op = "setFrame" =>
           /\ obs'.frame.coordSys = Ecliptical =>
                  /\ eclipticAt(obs'.frame, last'.sel)
                  /\ empty(getRefObject(obs'.frame)) <=> empty(last'.sel)
           /\ obs'.frame.coordSys = Universal =>
                  eclipticAt(obs'.frame, Nil)]_vars

\* setFrame has built an Ecliptical frame on a body.
C14_Witness ==
    /\ last.op = "setFrame"
    /\ last.sel = Earth
    /\ obs.frame.coordSys = Ecliptical
    /\ getRefObject(obs.frame) = Earth

\* C15 as stated: a frame of the observer that is tagged Unknown is one of
\* the frames that wrap a ReferenceFrame supplied by the caller; no
\* operation builds a frame from a tag and anchors through createFrame and
\* tags it Unknown.
C15_AsStated ==
    obs.frame.coordSys = Unknown =>
        \E f \in SharedFrames : f.coordSys = Unknown /\ obs.frame = f

(***************************************************************************)
(* Properties of the journey's parameters, under JourneySpec.              *)
(***************************************************************************)
\* C16 as stated: whenever the mode is Travelling, the journey satisfies
\* 0 <= startInterpolation <= endInterpolation <= 1, whichever operation
\* installed it.
C16_AsStated ==
    obs.observerMode = Travelling =>
        /\ 0 <= obs.journey.startInterpolation
        /\ obs.journey.startInterpolation <= obs.journey.endInterpolation
        /\ obs.journey.endInterpolation <= InterpUnit

(***************************************************************************)
(* The example scenario, under JourneySpec: the body B is Earth, gotoTime  *)
(* and the tick are MaxDuration.                                           *)
(***************************************************************************)
\* The observer is as constructed but for its frame: at the universal
\* origin, in the Ecliptical frame anchored at the body, with no speed, no
\* turn and no tracked object.
atOriginAbout(o, body) ==
    /\ o.positionUniv = Zero
    /\ o.frame = ObserverFrame(Ecliptical, body, Nil)
    /\ o.velocity = Zero
    /\ o.targetVelocity = Zero
    /\ o.angularVelocity = 0
    /\ empty(o.trackObject)

\* A length d of the lattice is the length of h hundredths of a kilometre,
\* each of the two coordinates having been cut to a whole number.
cutFrom(d, h) == 100 * d <= h /\ 100 * d > h - 200

\* The observer's distance to the body's position.
distanceTo(o, body) == Norm(offsetFromKm(o.positionUniv, getPosition(body, o.simTime)))

\* The call is gotoSelection(B, gotoTime) of the scenario.
scenarioGoto(call) ==
    call.op = "gotoSelection" /\ call.sel = Earth /\ call.n = MaxDuration

\* The call is the single update(gotoTime, 1.0) of the scenario.
scenarioTick(call) ==
    call.op = "update" /\ call.n = MaxDuration /\ call.scale = 1

far(sel, currentDistance) == currentDistance > 10 * getPreferredDistance(sel)

\* C18 as stated: the orbit distance is one tenth of the current distance
\* when the observer is far from the target and the preferred distance
\* otherwise, and is at least 1.01 times the target's radius.
C18_AsStated ==
    last.op = "getOrbitDistance" =>
        /\ last.result = IF far(last.sel, last.n)
                         THEN 10 * last.n
                         ELSE 100 * getPreferredDistance(last.sel)
        /\ last.result >= 101 * radius(last.sel)

\* C18: the orbit distance chosen by the direct-selection goto is the
\* preferred distance when the observer is currently far from the target
\* (more than 10 times the preferred distance) and a 10 times zoom-in (one
\* tenth of the current distance) otherwise, replaced by 1.01 times the
\* target's radius where that is larger; so in every case it is at least
\* 1.01 times the target's radius.
C18_OrbitDistance ==
    last.op = "getOrbitDistance" =>
        LET chosen == IF far(last.sel, last.n)
                      THEN 100 * getPreferredDistance(last.sel)
                      ELSE 10 * last.n
            floor == 101 * radius(last.sel)
        IN  /\ chosen >= floor => last.result = chosen
            /\ chosen < floor => last.result = floor
            /\ last.result >= floor

\* The function has been applied to a body from far away and has returned
\* the body's preferred distance.
C18_Witness ==
    /\ last.op = "getOrbitDistance"
    /\ last.sel = Earth
    /\ last.n > 10 * 5 * radius(Earth)
    /\ last.result = 100 * 5 * radius(Earth)

(***************************************************************************)
(* Properties of the velocity, under JourneySpec.                          *)
(***************************************************************************)
\* C19 as stated: after the tick that completes a journey the velocity is
\* the zero vector and the position is where the journey stage put it, not
\* displaced by velocity * dt, whatever targetVelocity is.
C19_AsStated ==
    [][(/\ last'.op = "update"
        /\ obs.observerMode = Travelling
        /\ obs'.observerMode = Free)
           => LET p == journeyStagePosition(obs, obs')
              IN  /\ obs'.velocity = Zero
                  /\ ~isOutOfBounds(convertToUniversalP(obs.frame, p, obs'.simTime))
                         => obs'.position = p]_vars

(***************************************************************************)
(* Properties of the manual velocity ramp, under Spec.                     *)
(***************************************************************************)
\* The blend of the velocity v and the target at the real time rt, zero
\* when its norm is below the threshold.
blendAt(v, o, rt) ==
    LET a == clamp(rt - o.beginAccelTime, 0, VELOCITY_CHANGE_TIME)
        b == VDiv(VAdd(VScale(v, VELOCITY_CHANGE_TIME - a),
                       VScale(o.targetVelocity, a)),
                  VELOCITY_CHANGE_TIME)
    IN  IF Norm(b) < VelocityEpsilon THEN Zero ELSE b

\* The tick completes a journey.
completesJourney == obs.observerMode = Travelling /\ obs'.observerMode = Free

\* C20 as stated: in an update where velocity # targetVelocity the new
\* velocity is the blend of velocity and targetVelocity (zero below the
\* threshold); after any update at which realTime - beginAccelTime is at
\* least VELOCITY_CHANGE_TIME the velocity equals targetVelocity; and once
\* equal it is not changed by an update that completes no journey.
C20_AsStated ==
    [][last'.op = "update" =>
           /\ obs.velocity # obs.targetVelocity =>
                  obs'.velocity = blendAt(obs.velocity, obs, obs'.realTime)
           /\ obs'.realTime - obs.beginAccelTime >= VELOCITY_CHANGE_TIME =>
                  obs'.velocity = obs.targetVelocity
           /\ (obs.velocity = obs.targetVelocity /\ ~completesJourney) =>
                  obs'.velocity = obs.velocity]_vars

\* C20: manual velocity ramp: in an update where velocity # targetVelocity
\* after the journey stage (which has reset the velocity to zero if the
\* tick completes a journey), the new velocity is the blend
\* velocity * (1 - a) + targetVelocity * a with
\* a = clamp((realTime - beginAccelTime) / VELOCITY_CHANGE_TIME, 0, 1),
\* replaced by exactly zero when its norm is below the threshold; therefore
\* after any update at which realTime - beginAccelTime is at least
\* VELOCITY_CHANGE_TIME the velocity equals targetVelocity, or is zero if
\* targetVelocity's norm is below the threshold, and once equal it is no
\* longer changed by update until setTargetSpeed or a journey completion
\* intervenes.
C20_VelocityRamp ==
    [][last'.op = "update" =>
           LET v0 == IF completesJourney THEN Zero ELSE obs.velocity
               target == obs.targetVelocity
           IN  /\ v0 # target => obs'.velocity = blendAt(v0, obs, obs'.realTime)
               /\ obs'.realTime - obs.beginAccelTime >= VELOCITY_CHANGE_TIME =>
                      \/ obs'.velocity = target
                      \/ Norm(target) < VelocityEpsilon /\ obs'.velocity = Zero
               /\ (obs.velocity = target /\ ~completesJourney) =>
                      obs'.velocity = obs.velocity
               /\ obs'.targetVelocity = target]_vars

\* An update has found the observer half way through the ramp: it moves,
\* at half its target speed.
C20_Witness ==
    /\ last.op = "update"
    /\ obs.realTime - obs.beginAccelTime < VELOCITY_CHANGE_TIME
    /\ obs.velocity # Zero
    /\ obs.velocity # obs.targetVelocity
    /\ 2 * Norm(obs.velocity) = Norm(obs.targetVelocity)

(***************************************************************************)
(* Properties of the journey's orientation, under JourneySpec.             *)
(***************************************************************************)
\* A tick of a journey that leaves the observer Travelling.
travelTick ==
    /\ last'.op = "update"
    /\ obs.observerMode = Travelling
    /\ obs'.observerMode = Travelling

\* C21 as stated: after a tick of a journey with no tracked object and
\* progress t, the orientation is journey.initialOrientation whenever
\* t < startInterpolation and journey.finalOrientation whenever
\* t >= endInterpolation, whatever the angular velocity is.
C21_AsStated ==
    [][(travelTick /\ empty(obs.trackObject)) =>
           LET j == obs'.journey
               tn == progressNum(j, obs'.realTime)
               td == progressDen(j)
           IN  /\ tn * InterpUnit < j.startInterpolation * td =>
                      obs'.orientation = j.initialOrientation
               /\ tn * InterpUnit >= j.endInterpolation * td =>
                      obs'.orientation = j.finalOrientation]_vars

(***************************************************************************)
(* Properties of the great-circle journey, under JourneySpec.              *)
(***************************************************************************)
\* The point of the great circle about the object center that the journey
\* of o gives at t = tn / td, in the coordinates of o's frame.
greatCirclePoint(o, center, tn, td) ==
    LET j == o.journey
        jv == offsetFromKm(j.to, j.from)
        firstHalf == 2 * tn < td
        un == IF firstHalf THEN 2 * tn ELSE 2 * (td - tn)
        x == travelProfile(j.expFactor, un, td)
        origin == getPosition(center, o.simTime)
        v0 == offsetFromKm(convertToUniversalP(o.frame, j.from, o.simTime), origin)
        v1 == offsetFromKm(convertToUniversalP(o.frame, j.to, o.simTime), origin)
        v == IF firstHalf
             THEN slerp(x[1], x[2] * Norm(jv), v0, v1)
             ELSE slerp(x[1], x[2] * Norm(jv), v1, v0)
    IN  IF Norm(jv) = 0
        THEN j.from
        ELSE convertFromUniversalP(o.frame, offsetKm(origin, v), o.simTime)

\* The operations that install a great-circle journey to a selection.
GreatCircleOps == {"gotoSelectionGC", "gotoSelectionGCDistance"}

\* C22 as stated: gotoSelectionGC(sel) records the parent of sel as the
\* journey's centerObject, and the tick that follows puts an observer at
\* rest on the great circle about that object.
C22_AsStated ==
    [][/\ (last'.op \in GreatCircleOps /\ ~empty(last'.sel)) =>
              obs'.journey.centerObject = parent(last'.sel)
       /\ (/\ last.op \in GreatCircleOps
           /\ travelTick
           /\ obs'.journey.traj = GreatCircle
           /\ obs'.velocity = Zero)
          => /\ obs'.journey.centerObject = obs.journey.centerObject
             /\ obs'.position
                    = greatCirclePoint(obs', obs.journey.centerObject,
                                       progressNum(obs'.journey, obs'.realTime),
                                       progressDen(obs'.journey))]_vars

(***************************************************************************)
(* Properties of a frame switch during a journey, under Spec.              *)
(***************************************************************************)
\* The universal images, at the time now, of the end points of o's journey.
journeyImages(o, now) ==
    [from |-> convertToUniversalP(o.frame, o.journey.from, now),
     to |-> convertToUniversalP(o.frame, o.journey.to, now),
     initialOrientation |->
         convertToUniversalQ(o.frame, o.journey.initialOrientation, now),
     finalOrientation |->
         convertToUniversalQ(o.frame, o.journey.finalOrientation, now)]

\* C23: when the frame is replaced while a journey is in flight, the
\* journey's from, to, initialOrientation and finalOrientation are
\* re-encoded so that their universal images at the current simTime are
\* the same before and after the switch, while duration, startTime,
\* interpolation window, accelTime, expFactor, trajectory kind and the mode
\* are left unchanged.
C23_JourneyReencoded ==
    [][(last'.op \in SetFrameOps /\ obs.observerMode = Travelling) =>
           /\ journeyImages(obs', obs.simTime) = journeyImages(obs, obs.simTime)
           /\ obs'.journey.duration = obs.journey.duration
           /\ obs'.journey.startTime = obs.journey.startTime
           /\ obs'.journey.startInterpolation = obs.journey.startInterpolation
           /\ obs'.journey.endInterpolation = obs.journey.endInterpolation
           /\ obs'.journey.accelTime = obs.journey.accelTime
           /\ obs'.journey.expFactor = obs.journey.expFactor
           /\ obs'.journey.traj = obs.journey.traj
           /\ obs'.observerMode = Travelling]_vars

\* The frame has been replaced by a body-fixed one during a journey to
\* <<2, 1>>, at a time when the body has turned: the destination is now
\* held in other coordinates.
C23_Witness ==
    /\ last.op \in SetFrameOps
    /\ last.mode = Travelling
    /\ obs.observerMode = Travelling
    /\ obs.frame.coordSys = BodyFixed
    /\ obs.simTime # 0
    /\ obs.journey.to # <<2, 1>>
    /\ convertToUniversalP(obs.frame, obs.journey.to, obs.simTime) = <<2, 1>>

(***************************************************************************)
(* Properties of a journey that goes nowhere, under PlacementSpec.         *)
(***************************************************************************)
\* C24: a journey whose from and to coincide never moves the observer:
\* with zero velocity the frame-local position equals journey.from after
\* every tick of the journey, for all three trajectory kinds, and the
\* journey ends in Free at t = 1; every centerSelection journey is such a
\* journey, with from = to = the observer's position and the window [0, 1].
C24_AsStated ==
    [][/\ (last'.op = "centerSelection" /\ ~empty(last'.sel)) =>
              /\ obs'.journey.from = obs'.journey.to
              /\ obs'.journey.from = obs'.position
              /\ obs'.journey.startInterpolation = 0
              /\ obs'.journey.endInterpolation = InterpUnit
              /\ obs'.observerMode = Travelling
       /\ (/\ last'.op = "update"
           /\ obs.observerMode = Travelling
           /\ obs.journey.from = obs.journey.to
           /\ obs'.velocity = Zero)
          => /\ obs'.position = obs.journey.from
             /\ arrived(obs, obs'.realTime) <=> obs'.observerMode = Free]_vars

(***************************************************************************)
(* The bounds of the simulation, under Spec.                               *)
(***************************************************************************)
\* C28: the universal position, which starts in bounds, is in bounds in
\* every reachable state, whatever the arguments of the calls.
C28_AsStated == ~isOutOfBounds(obs.positionUniv)

(***************************************************************************)
(* The journey of gotoLocation, under JourneySpec.                         *)
(***************************************************************************)
LocationOps == {"gotoLocation", "gotoSurface"}

\* C27: a journey installed by gotoLocation, or by gotoSurface through it,
\* ends, once realTime has advanced by at least its duration with zero
\* velocity and no tracked object, at the position and the orientation it
\* was given, whatever journey operations were executed before it.  It is
\* stated for the targets inside the bounds of the simulation, a position
\* outside them being discarded at the end of update.
C27_AsStated ==
    [][(/\ last.op \in LocationOps
        /\ last'.op = "update"
        /\ arrived(obs, obs'.realTime)
        /\ obs'.velocity = Zero
        /\ empty(obs.trackObject)
        /\ ~isOutOfBounds(convertToUniversalP(obs.frame, obs.journey.to, obs'.simTime)))
       => /\ obs'.position = obs.journey.to
          /\ obs'.orientation = obs.journey.finalOrientation]_vars

(***************************************************************************)
(* Properties of orbit, under ManipulationSpec.                            *)
(***************************************************************************)
\* The object orbit turns the observer about: the frame's reference object,
\* or the selection if the frame has none.
focusOf(o, selection) ==
    IF empty(getRefObject(o.frame)) THEN selection ELSE getRefObject(o.frame)

\* The distance between the frame-local position and the frame-local
\* position of the focus.
focusDistance(o, focus) ==
    Norm(offsetFromKm(o.position,
                      convertFromUniversalP(o.frame, getPosition(focus, o.simTime),
                                            o.simTime)))

adopts(o, selection) == empty(getRefObject(o.frame)) /\ ~empty(selection)

orbitKeepsDistance ==
    ~empty(focusOf(obs, last'.sel)) =>
        focusDistance(obs', focusOf(obs, last'.sel))
            = focusDistance(obs, focusOf(obs, last'.sel))

orbitWithoutFocus == empty(focusOf(obs, last'.sel)) => obs' = obs

installs(call, o) ==
    /\ call.op \in InstallOps
    /\ call.op \in SelectionGotoOps \ {"gotoSurface"} => ~empty(call.sel)
    /\ call.op = "centerSelectionCO" => ~empty(getRefObject(o.frame))

\* C29: right after a goto, center or gotoLocation call that installs a
\* journey, the journey's startTime is realTime, its from is the observer's
\* frame-local position and its initialOrientation the observer's
\* frame-local orientation, in the frame that is active after the call.
C29_JourneyStart ==
    [][installs(last', obs) =>
           /\ obs'.observerMode = Travelling
           /\ obs'.journey.startTime = obs'.realTime
           /\ obs'.journey.from = obs'.position
           /\ obs'.journey.initialOrientation = obs'.orientation]_vars

\* A journey installed at a later real time in a frame that is displaced
\* and turned against the universal one.
C29_Witness ==
    /\ installs(last, obs)
    /\ obs.observerMode = Travelling
    /\ obs.realTime > 0
    /\ obs.journey.startTime = obs.realTime
    /\ obs.frame.coordSys = BodyFixed
    /\ obs.position # obs.positionUniv
    /\ obs.orientation # obs.orientationUniv
    /\ obs.journey.from = obs.position
    /\ obs.journey.initialOrientation = obs.orientation

(***************************************************************************)
(* The journey under direct manipulation, under ManipulationSpec.          *)
(***************************************************************************)
ManipulationOps ==
    {"setFrame", "follow", "geosynchronousFollow", "phaseLock", "chase", "orbit",
     "changeOrbitDistance", "rotate", "setPosition", "setOrientation", "setTime",
     "setTargetSpeed", "setTrackedObject"}

\* C30: the frame-switch and direct-manipulation operations change neither
\* the mode, nor realTime, nor the duration, the startTime and the
\* trajectory kind of the journey: the arrival time is as it was, which is
\* startTime + duration while Travelling and realTime while Free.
C30_JourneyKeepsRunning ==
    [][last'.op \in ManipulationOps =>
           /\ obs'.observerMode = obs.observerMode
           /\ obs'.realTime = obs.realTime
           /\ obs'.journey.duration = obs.journey.duration
           /\ obs'.journey.startTime = obs.journey.startTime
           /\ obs'.journey.traj = obs.journey.traj
           /\ getArrivalTime(obs') = getArrivalTime(obs)
           /\ getArrivalTime(obs') =
                  IF obs'.observerMode = Travelling
                  THEN obs'.journey.startTime + obs'.journey.duration
                  ELSE obs'.realTime]_vars

\* A dolly towards the body in the middle of a journey to it, which has
\* left the observer Travelling, to arrive when it was to arrive.
C30_Witness ==
    /\ last.op = "changeOrbitDistance"
    /\ last.sel = Earth
    /\ last.mode = Travelling
    /\ obs.observerMode = Travelling
    /\ obs.realTime > obs.journey.startTime
    /\ getArrivalTime(obs) > obs.realTime
    /\ obs.position # obs.journey.from

====
